---- MODULE Spec2Model ----
(***************************************************************************)
(* Secure-Access-Portal: the request gate, the session manager, the        *)
(* credential store and the search proxy of the Express backend, in its    *)
(* two role variants:                                                      *)
(*   "adminUser"  : routes of src/unnamed/part_003 (admin manages users),  *)
(*                  middleware of src/unnamed/part_001, models.ts          *)
(*   "ownerAdmin" : routes of src/unnamed/part_004 (owner manages admins), *)
(*                  middleware of src/unnamed/part_000, part_002           *)
(* Strings the code inspects (trim, startsWith, includes, length) are      *)
(* sequences of one-character strings; messages and codes the code only    *)
(* copies are TLA+ strings.                                                *)
(***************************************************************************)
EXTENDS Integers, Sequences, FiniteSets, TLC

(* ------------------------------ bounds -------------------------------- *)
MaxSid == 2       \* session ids issued in one behaviour
MaxAttempts == 2  \* requests per client address and window, where the limit is not the subject
MaxOver == 2      \* requests per client address and window beyond a limiter's max
MaxUsers == 3     \* documents ever inserted into the account collection
MaxPending == 2   \* account requests suspended between lookup and save
MaxHistory == 2   \* search history entries

(* ------------------------- string primitives -------------------------- *)
StartsWith(s, p) == Len(p) <= Len(s) /\ SubSeq(s, 1, Len(p)) = p

Includes(s, p) == \E i \in 0..(Len(s) - Len(p)) : SubSeq(s, i + 1, i + Len(p)) = p

IsSpace(c) == c = " "

RECURSIVE TrimStart(_)
TrimStart(s) ==
  IF s # <<>> /\ IsSpace(s[1]) THEN TrimStart(Tail(s)) ELSE s

RECURSIVE TrimEnd(_)
TrimEnd(s) ==
  IF s # <<>> /\ IsSpace(s[Len(s)]) THEN TrimEnd(SubSeq(s, 1, Len(s) - 1)) ELSE s

Trim(s) == TrimEnd(TrimStart(s))

UpperChars == <<"A","B","C","D","E","F","G","H","I","J","K","L","M","N","O","P","Q","R","S","T","U","V","W","X","Y","Z">>
LowerChars == <<"a","b","c","d","e","f","g","h","i","j","k","l","m","n","o","p","q","r","s","t","u","v","w","x","y","z">>

ToLowerChar(c) ==
  IF \E i \in 1..Len(UpperChars) : UpperChars[i] = c
  THEN LowerChars[CHOOSE i \in 1..Len(UpperChars) : UpperChars[i] = c]
  ELSE c

ToLowerCase(s) == [i \in 1..Len(s) |-> ToLowerChar(s[i])]

(* ----------------------------- JS values ------------------------------ *)
(* A JSON body field: a string, undefined (absent), or an object such as  *)
(* {"$ne": null}.                                                         *)
JStr(s) == [t |-> "string", v |-> s]
JUndef == [t |-> "undefined", v |-> <<>>]
JObj == [t |-> "object", v |-> <<>>]

IsString(x) == x.t = "string"

(* JavaScript truthiness of a body field: !x is ~Truthy(x). *)
Truthy(x) == x.t = "object" \/ (x.t = "string" /\ x.v # <<>>)

(* -------------------------- string literals --------------------------- *)
sAdmin == <<"a","d","m","i","n">>
sUser == <<"u","s","e","r">>
sOwner == <<"o","w","n","e","r">>
sSystemAdmin == <<"S","y","s","t","e","m"," ","A","d","m","i","n">>
sSystemOwner == <<"S","y","s","t","e","m"," ","O","w","n","e","r">>
sInactive == <<"i","n","a","c","t","i","v","e">>
sActive == <<"a","c","t","i","v","e">>

(* ------------------------- sample input values ------------------------ *)
uAdm == <<"a","d","m">>
uAdmPadded == <<" ","a","d","m">>
pSecret == <<"s","e","c","r","e","t","1">>
pSecretPadded == <<"s","e","c","r","e","t","1"," ">>
uAli == <<"a","l","i">>
uBob == <<"b","o","b">>
uZed == <<"z","e","d">>
pAli == <<"a","l","i","p","w","1","2">>
pBob == <<"b","o","b","p","w","1","2">>
nAli == <<"A","l","i"," ","A">>
nBob == <<"B","o","b"," ","B">>
eAli == <<"a","l","i","@","x",".","i","o">>
eBob == <<"b","o","b","@","x",".","i","o">>

uaBrowser == <<"M","o","z","i","l","l","a","/","5",".","0">>
uaCurl == <<"c","u","r","l","/","8",".","0">>
uaBurp == <<"B","u","r","p"," ","S","u","i","t","e">>
originOk == <<"h","t","t","p","s",":","/","/","s","e","c","u","r","e","-","a","c","c","e","s","s","-","p","o","r","t","a","l",".","o","n","r","e","n","d","e","r",".","c","o","m">>
originEvil == <<"h","t","t","p","s",":","/","/","e","v","i","l",".","e","x","a","m","p","l","e">>
ipClean == <<"2","0","3",".","0",".","1","1","3",".","7">>
ipClean2 == <<"1","9","8",".","5","1",".","1","0","0",".","9">>
ipVpn == <<"1","0","4",".","2","3","8",".","1",".","1">>
ipPrivate == <<"1","0",".","0",".","0",".","5">>
originLookalike == <<"h","t","t","p","s",":","/","/","l","o","c","a","l","h","o","s","t",".","e","v","i","l",".","e","x","a","m","p","l","e">>
originReplit == <<"h","t","t","p","s",":","/","/","x",".","r","e","p","l","i","t",".","d","e","v">>
refererPage == <<"h","t","t","p","s",":","/","/","s","e","c","u","r","e","-","a","c","c","e","s","s","-","p","o","r","t","a","l",".","o","n","r","e","n","d","e","r",".","c","o","m","/","s","e","a","r","c","h">>
ipVpnNew == <<"3",".","1",".","2",".","3">>
ipLoopback == <<"1","2","7",".","0",".","0",".","1">>
ip172 == <<"1","7","2",".","1","0","4",".","1",".","1">>
uAliPadded == <<" ","a","l","i">>
uCarl == <<"c","a","r","l">>
pCarl == <<"c","a","r","l","p","w","1","2">>
nCarl == <<"C","a","r","l"," ","C">>
eCarl == <<"c","a","r","l","@","x",".","i","o">>
sZzz == <<"z","z","z">>
qOne == <<"q","1">>

(* Every header value, address and path a modelled request can carry.  The   *)
(* string tests of the middleware are evaluated once over these (the sets    *)
(* suspiciousUAs, browserUAs, allowedSources, privateIps, rangeIps,          *)
(* rangeIpsOld below) and looked up per request.                             *)
SampleUAs == {uaBrowser, uaCurl, uaBurp}
SampleSources == {originOk, originEvil, originLookalike, originReplit, refererPage}
SampleIps == {ipClean, ipClean2, ipVpn, ipVpnNew, ipPrivate, ipLoopback, ip172}

(* ----------------- input validation (admin/user routes) --------------- *)
sanitizeStringMax == 500

sanitizeString(input) ==
  IF ~IsString(input) THEN <<>>
  ELSE LET t == Trim(input.v)
       IN SubSeq(t, 1, IF Len(t) < sanitizeStringMax THEN Len(t) ELSE sanitizeStringMax)

(* ---------------------------- middleware ------------------------------ *)
Pass == [pass |-> TRUE, status |-> 0, error |-> "", code |-> ""]
Reject(st, err, cd) == [pass |-> FALSE, status |-> st, error |-> err, code |-> cd]

suspiciousUserAgents ==
  { <<"c","h","a","r","l","e","s">>,
    <<"f","i","d","d","l","e","r">>,
    <<"m","i","t","m","p","r","o","x","y">>,
    <<"b","u","r","p">>,
    <<"z","a","p">>,
    <<"h","t","t","p","d","e","b","u","g","g","e","r">>,
    <<"p","r","o","x","y","m","a","n">>,
    <<"h","t","t","p","c","a","n","a","r","y">> }

isSuspiciousUA(ua) ==
  \E agent \in suspiciousUserAgents : Includes(ToLowerCase(ua), agent)

suspiciousUAs == {ua \in SampleUAs : isSuspiciousUA(ua)}

preventInterception(req) ==
  IF req.ua \in suspiciousUAs
  THEN Reject(403, "Request blocked for security reasons", "SECURITY_BLOCK")
  ELSE Pass

ALLOWED_ORIGINS ==
  { <<"h","t","t","p","s",":","/","/","s","e","c","u","r","e","-","a","c","c","e","s","s","-","p","o","r","t","a","l",".","o","n","r","e","n","d","e","r",".","c","o","m">>,
    <<"h","t","t","p",":","/","/","l","o","c","a","l","h","o","s","t",":","5","0","0","0">>,
    <<"h","t","t","p",":","/","/","0",".","0",".","0",".","0",":","5","0","0","0">>,
    <<"h","t","t","p","s",":","/","/","l","o","c","a","l","h","o","s","t">> }

platformDomains ==
  { <<"r","e","p","l","i","t",".","d","e","v">>,
    <<"r","e","p","l","i","t",".","a","p","p">>,
    <<"r","e","p","l",".","c","o">> }

browserTokens ==
  { <<"m","o","z","i","l","l","a">>,
    <<"c","h","r","o","m","e">>,
    <<"s","a","f","a","r","i">> }

sApiPrefix == <<"/","a","p","i","/">>
sPathMe == <<"/","a","p","i","/","a","u","t","h","/","m","e">>

isAllowedSource(s) ==
  \/ \E allowed \in ALLOWED_ORIGINS : StartsWith(s, allowed)
  \/ \E d \in platformDomains : Includes(s, d)

allowedSources == {s \in SampleSources : isAllowedSource(s)}

isBrowserUA(ua) == \E b \in browserTokens : Includes(ToLowerCase(ua), b)

browserUAs == {ua \in SampleUAs : isBrowserUA(ua)}

(* Header values: <<>> is an absent (or empty) header, falsy either way. *)
apiProtection(req, path) ==
  IF ~StartsWith(path, sApiPrefix) THEN Pass
  ELSE IF /\ req.origin = <<>> /\ req.referer = <<>>
          /\ path # sPathMe
          /\ req.ua \notin browserUAs
       THEN Reject(403, "Direct API access not allowed", "API_ACCESS_DENIED")
  ELSE IF req.origin # <<>> /\ req.origin \notin allowedSources
       THEN Reject(403, "Origin not allowed", "CORS_BLOCKED")
  ELSE IF req.referer # <<>> /\ req.referer \notin allowedSources
       THEN Reject(403, "Invalid request source", "REFERER_BLOCKED")
  ELSE Pass

(* The CORS allow headers are set on the pass path only. *)
corsHeadersSet(req, path) ==
  /\ apiProtection(req, path).pass
  /\ StartsWith(path, sApiPrefix)
  /\ req.origin # <<>> /\ req.origin \in allowedSources

vpnRanges ==
  {
    <<"1","0","4",".","2","3","8">>, <<"1","0","4",".","1","3","1">>, <<"1","0","4",".","2","3","6">>, <<"1","3","8",".","6","8">>, <<"1","3","8",".","1","9","7">>, <<"1","4","2",".","9","3">>,
    <<"1","5","7",".","2","3","0">>, <<"1","5","9",".","6","5">>, <<"1","5","9",".","8","9">>, <<"1","6","1",".","3","5">>, <<"1","6","2",".","2","4","3">>, <<"1","6","4",".","9","0">>,
    <<"1","6","5",".","2","2">>, <<"1","6","5",".","2","2","7">>, <<"1","6","7",".","7","1">>, <<"1","6","7",".","1","7","2">>, <<"1","7","4",".","1","3","8">>, <<"1","7","8",".","6","2">>,
    <<"1","7","8",".","1","2","8">>, <<"1","8","8",".","1","6","6">>, <<"1","9","2",".","2","4","1">>, <<"1","9","8",".","1","9","9">>, <<"2","0","6",".","1","8","9">>, <<"2","0","9",".","9","7">>,
    <<"4","5",".","3","2">>, <<"4","5",".","6","3">>, <<"4","5",".","7","6">>, <<"4","5",".","7","7">>, <<"6","6",".","4","2">>, <<"9","5",".","1","7","9">>,
    <<"1","0","4",".","1","5","6">>, <<"1","0","8",".","6","1">>, <<"1","4","0",".","8","2">>, <<"1","4","9",".","2","8">>, <<"1","5","5",".","1","3","8">>, <<"2","0","7",".","2","4","6">>,
    <<"2","0","8",".","1","6","7">>, <<"2","0","9",".","2","5","0">>, <<"2","1","6",".","1","2","8">>, <<"2","1","7",".","6","9">>, <<"4","5",".","3","3">>, <<"4","5",".","5","6">>,
    <<"4","5",".","7","9">>, <<"5","0",".","1","1","6">>, <<"6","6",".","1","7","5">>, <<"6","9",".","1","6","4">>, <<"7","2",".","1","4">>, <<"7","4",".","2","0","7">>,
    <<"9","6",".","1","2","6">>, <<"9","7",".","1","0","7">>, <<"1","3","9",".","1","4","4">>, <<"1","3","9",".","1","6","2">>, <<"1","4","3",".","4","2">>, <<"1","7","0",".","1","8","7">>,
    <<"1","7","2",".","1","0","4">>, <<"1","7","2",".","1","0","5">>, <<"1","7","3",".","2","3","0">>, <<"1","7","3",".","2","5","5">>, <<"1","7","6",".","5","8">>, <<"1","7","8",".","7","9">>,
    <<"1","9","2",".","4","6">>, <<"1","9","4",".","1","9","5">>, <<"1","9","8",".","5","8">>, <<"2","1","2",".","7","1">>, <<"2","1","3",".","5","2">>, <<"3",".","0">>,
    <<"3",".","1">>, <<"3",".","2">>, <<"3",".","5">>, <<"3",".","6">>, <<"3",".","8">>, <<"3",".","9">>,
    <<"3",".","1","0">>, <<"3",".","1","1">>, <<"3",".","1","2">>, <<"3",".","1","3">>, <<"3",".","1","4">>, <<"3",".","1","5">>,
    <<"3",".","1","6">>, <<"3",".","1","7">>, <<"3",".","1","8">>, <<"3",".","1","9">>, <<"3",".","2","0">>, <<"3",".","2","1">>,
    <<"3",".","2","2">>, <<"3",".","2","3">>, <<"3",".","2","4">>, <<"3",".","2","5">>, <<"3",".","2","6">>, <<"3",".","2","7">>,
    <<"1","3",".","4","8">>, <<"1","3",".","4","9">>, <<"1","3",".","5","0">>, <<"1","3",".","5","1">>, <<"1","3",".","5","2">>, <<"1","3",".","5","3">>,
    <<"1","3",".","5","4">>, <<"1","3",".","5","5">>, <<"1","3",".","5","6">>, <<"1","3",".","5","7">>, <<"1","3",".","5","8">>, <<"1","3",".","1","1","2">>,
    <<"1","3",".","1","1","3">>, <<"1","3",".","1","1","4">>, <<"1","3",".","1","2","4">>, <<"1","3",".","1","2","5">>, <<"1","3",".","1","2","6">>, <<"1","3",".","1","2","7">>,
    <<"1","3",".","2","0","8">>, <<"1","3",".","2","0","9">>, <<"1","3",".","2","1","0">>, <<"1","3",".","2","1","1">>, <<"1","3",".","2","1","2">>, <<"1","3",".","2","1","3">>,
    <<"1","3",".","2","1","4">>, <<"1","3",".","2","2","8">>, <<"1","3",".","2","2","9">>, <<"1","3",".","2","3","0">>, <<"1","3",".","2","3","1">>, <<"1","3",".","2","3","2">>,
    <<"1","3",".","2","3","3">>, <<"1","3",".","2","3","4">>, <<"1","3",".","2","3","5">>, <<"1","3",".","2","3","6">>, <<"1","3",".","2","3","7">>, <<"1","3",".","2","3","8">>,
    <<"1","3",".","2","3","9">>, <<"1","3",".","2","4","4">>, <<"1","3",".","2","4","5">>, <<"1","3",".","2","4","6">>, <<"1","3",".","2","4","7">>, <<"1","3",".","2","4","8">>,
    <<"1","3",".","2","4","9">>, <<"1","3",".","2","5","0">>, <<"1","3",".","2","5","1">>, <<"1","8",".","1","3","0">>, <<"1","8",".","1","3","1">>, <<"1","8",".","1","3","2">>,
    <<"1","8",".","1","3","3">>, <<"1","8",".","1","3","4">>, <<"1","8",".","1","3","5">>, <<"1","8",".","1","3","6">>, <<"1","8",".","1","3","8">>, <<"1","8",".","1","3","9">>,
    <<"1","8",".","1","4","0">>, <<"1","8",".","1","4","1">>, <<"1","8",".","1","4","2">>, <<"1","8",".","1","4","3">>, <<"1","8",".","1","4","4">>, <<"1","8",".","1","5","6">>,
    <<"1","8",".","1","5","7">>, <<"1","8",".","1","5","8">>, <<"1","8",".","1","5","9">>, <<"1","8",".","1","6","2">>, <<"1","8",".","1","6","3">>, <<"1","8",".","1","6","6">>,
    <<"1","8",".","1","6","7">>, <<"1","8",".","1","6","8">>, <<"1","8",".","1","6","9">>, <<"1","8",".","1","7","0">>, <<"1","8",".","1","7","1">>, <<"1","8",".","1","7","5">>,
    <<"1","8",".","1","7","6">>, <<"1","8",".","1","7","7">>, <<"1","8",".","1","7","8">>, <<"1","8",".","1","7","9">>, <<"1","8",".","1","8","0">>, <<"1","8",".","1","8","1">>,
    <<"1","8",".","1","8","2">>, <<"1","8",".","1","8","3">>, <<"1","8",".","1","8","4">>, <<"1","8",".","1","8","5">>, <<"1","8",".","1","8","8">>, <<"1","8",".","1","8","9">>,
    <<"1","8",".","1","9","0">>, <<"1","8",".","1","9","1">>, <<"1","8",".","1","9","2">>, <<"1","8",".","1","9","3">>, <<"1","8",".","1","9","4">>, <<"1","8",".","1","9","5">>,
    <<"1","8",".","1","9","6">>, <<"1","8",".","1","9","7">>, <<"1","8",".","1","9","8">>, <<"1","8",".","1","9","9">>, <<"1","8",".","2","0","0">>, <<"1","8",".","2","0","1">>,
    <<"1","8",".","2","0","2">>, <<"1","8",".","2","0","3">>, <<"1","8",".","2","0","4">>, <<"1","8",".","2","0","5">>, <<"1","8",".","2","0","6">>, <<"1","8",".","2","0","7">>,
    <<"1","8",".","2","0","8">>, <<"1","8",".","2","0","9">>, <<"1","8",".","2","1","0">>, <<"1","8",".","2","1","1">>, <<"1","8",".","2","1","2">>, <<"1","8",".","2","1","3">>,
    <<"1","8",".","2","1","4">>, <<"1","8",".","2","1","5">>, <<"1","8",".","2","1","6">>, <<"1","8",".","2","1","7">>, <<"1","8",".","2","1","8">>, <<"1","8",".","2","1","9">>,
    <<"1","8",".","2","2","0">>, <<"1","8",".","2","2","1">>, <<"1","8",".","2","2","2">>, <<"1","8",".","2","2","3">>, <<"1","8",".","2","2","4">>, <<"1","8",".","2","2","5">>,
    <<"1","8",".","2","2","8">>, <<"1","8",".","2","2","9">>, <<"1","8",".","2","3","0">>, <<"1","8",".","2","3","1">>, <<"1","8",".","2","3","2">>, <<"1","8",".","2","3","3">>,
    <<"1","8",".","2","3","4">>, <<"1","8",".","2","3","5">>, <<"1","8",".","2","3","6">>, <<"1","8",".","2","3","7">>, <<"1","8",".","2","4","6">>, <<"1","8",".","2","5","2">>,
    <<"1","8",".","2","5","3">>, <<"3","4",".","1","9","2">>, <<"3","4",".","1","9","3">>, <<"3","4",".","1","9","4">>, <<"3","4",".","1","9","5">>, <<"3","4",".","1","9","6">>,
    <<"3","4",".","1","9","7">>, <<"3","4",".","1","9","8">>, <<"3","4",".","1","9","9">>, <<"3","4",".","2","0","0">>, <<"3","4",".","2","0","1">>, <<"3","4",".","2","0","2">>,
    <<"3","4",".","2","0","3">>, <<"3","4",".","2","0","4">>, <<"3","4",".","2","0","5">>, <<"3","4",".","2","0","6">>, <<"3","4",".","2","0","7">>, <<"3","4",".","2","0","8">>,
    <<"3","4",".","2","0","9">>, <<"3","4",".","2","1","0">>, <<"3","4",".","2","1","1">>, <<"3","4",".","2","1","2">>, <<"3","4",".","2","1","3">>, <<"3","4",".","2","1","4">>,
    <<"3","4",".","2","1","5">>, <<"3","4",".","2","1","6">>, <<"3","4",".","2","1","7">>, <<"3","4",".","2","1","8">>, <<"3","4",".","2","1","9">>, <<"3","4",".","2","2","0">>,
    <<"3","4",".","2","2","1">>, <<"3","4",".","2","2","2">>, <<"3","4",".","2","2","3">>, <<"3","4",".","2","2","4">>, <<"3","4",".","2","2","5">>, <<"3","4",".","2","2","6">>,
    <<"3","4",".","2","2","7">>, <<"3","4",".","2","2","8">>, <<"3","4",".","2","2","9">>, <<"3","4",".","2","3","0">>, <<"3","4",".","2","3","1">>, <<"3","4",".","2","3","2">>,
    <<"3","4",".","2","3","3">>, <<"3","4",".","2","3","4">>, <<"3","4",".","2","3","5">>, <<"3","4",".","2","3","6">>, <<"3","4",".","2","3","7">>, <<"3","4",".","2","3","8">>,
    <<"3","4",".","2","3","9">>, <<"3","4",".","2","4","0">>, <<"3","4",".","2","4","1">>, <<"3","4",".","2","4","2">>, <<"3","4",".","2","4","3">>, <<"3","4",".","2","4","4">>,
    <<"3","4",".","2","4","5">>, <<"3","4",".","2","4","6">>, <<"3","4",".","2","4","7">>, <<"3","4",".","2","4","8">>, <<"3","4",".","2","4","9">>, <<"3","4",".","2","5","0">>,
    <<"3","4",".","2","5","1">>, <<"3","4",".","2","5","2">>, <<"3","4",".","2","5","3">>, <<"3","4",".","2","5","4">>, <<"3","4",".","2","5","5">>, <<"3","4",".","6","4">>,
    <<"3","4",".","6","5">>, <<"3","4",".","6","6">>, <<"3","4",".","6","7">>, <<"3","4",".","6","8">>, <<"3","4",".","6","9">>, <<"3","4",".","7","0">>,
    <<"3","4",".","7","1">>, <<"3","4",".","7","2">>, <<"3","4",".","7","3">>, <<"3","4",".","7","4">>, <<"3","4",".","7","5">>, <<"3","4",".","7","6">>,
    <<"3","4",".","7","7">>, <<"3","4",".","7","8">>, <<"3","4",".","7","9">>, <<"3","4",".","8","0">>, <<"3","4",".","8","1">>, <<"3","4",".","8","2">>,
    <<"3","4",".","8","3">>, <<"3","4",".","8","4">>, <<"3","4",".","8","5">>, <<"3","4",".","8","6">>, <<"3","4",".","8","7">>, <<"3","4",".","8","8">>,
    <<"3","4",".","8","9">>, <<"3","4",".","9","0">>, <<"3","4",".","9","1">>, <<"3","4",".","9","2">>, <<"3","4",".","9","3">>, <<"3","4",".","9","4">>,
    <<"3","4",".","9","5">>, <<"3","4",".","9","6">>, <<"3","4",".","9","7">>, <<"3","4",".","9","8">>, <<"3","4",".","9","9">>, <<"3","4",".","1","0","0">>,
    <<"3","4",".","1","0","1">>, <<"3","4",".","1","0","2">>, <<"3","4",".","1","0","3">>, <<"3","4",".","1","0","4">>, <<"3","4",".","1","0","5">>, <<"3","4",".","1","0","6">>,
    <<"3","4",".","1","0","7">>, <<"3","4",".","1","0","8">>, <<"3","4",".","1","0","9">>, <<"3","4",".","1","1","0">>, <<"3","4",".","1","1","1">>, <<"3","4",".","1","1","2">>,
    <<"3","4",".","1","1","3">>, <<"3","4",".","1","1","4">>, <<"3","4",".","1","1","5">>, <<"3","4",".","1","1","6">>, <<"3","4",".","1","1","7">>, <<"3","4",".","1","1","8">>,
    <<"3","4",".","1","1","9">>, <<"3","4",".","1","2","0">>, <<"3","4",".","1","2","1">>, <<"3","4",".","1","2","2">>, <<"3","4",".","1","2","3">>, <<"3","4",".","1","2","4">>,
    <<"3","4",".","1","2","5">>, <<"3","4",".","1","2","6">>, <<"3","4",".","1","2","7">>, <<"3","4",".","1","2","8">>, <<"3","4",".","1","2","9">>, <<"3","4",".","1","3","0">>,
    <<"3","4",".","1","3","1">>, <<"3","4",".","1","3","2">>, <<"3","4",".","1","3","3">>, <<"3","4",".","1","3","4">>, <<"3","4",".","1","3","5">>, <<"3","4",".","1","3","6">>,
    <<"3","4",".","1","3","7">>, <<"3","4",".","1","3","8">>, <<"3","4",".","1","3","9">>, <<"3","4",".","1","4","0">>, <<"3","4",".","1","4","1">>, <<"3","4",".","1","4","2">>,
    <<"3","4",".","1","4","3">>, <<"3","4",".","1","4","4">>, <<"3","4",".","1","4","5">>, <<"3","4",".","1","4","6">>, <<"3","4",".","1","4","7">>, <<"3","4",".","1","4","8">>,
    <<"3","4",".","1","4","9">>, <<"3","4",".","1","5","0">>, <<"3","4",".","1","5","1">>, <<"3","4",".","1","5","2">>, <<"3","4",".","1","5","3">>, <<"3","4",".","1","5","4">>,
    <<"3","4",".","1","5","5">>, <<"3","4",".","1","5","6">>, <<"3","4",".","1","5","7">>, <<"3","4",".","1","5","8">>, <<"3","4",".","1","5","9">>, <<"3","4",".","1","6","0">>,
    <<"3","4",".","1","6","1">>, <<"3","4",".","1","6","2">>, <<"3","4",".","1","6","3">>, <<"3","4",".","1","6","4">>, <<"3","4",".","1","6","5">>, <<"3","4",".","1","6","6">>,
    <<"3","4",".","1","6","7">>, <<"3","4",".","1","6","8">>, <<"3","4",".","1","6","9">>, <<"3","4",".","1","7","0">>, <<"3","4",".","1","7","1">>, <<"3","4",".","1","7","2">>,
    <<"3","4",".","1","7","3">>, <<"3","4",".","1","7","4">>, <<"3","4",".","1","7","5">>, <<"3","4",".","1","7","6">>, <<"3","5",".","1","8","4">>, <<"3","5",".","1","8","5">>,
    <<"3","5",".","1","8","6">>, <<"3","5",".","1","8","7">>, <<"3","5",".","1","8","8">>, <<"3","5",".","1","8","9">>, <<"3","5",".","1","9","0">>, <<"3","5",".","1","9","1">>,
    <<"3","5",".","1","9","2">>, <<"3","5",".","1","9","3">>, <<"3","5",".","1","9","4">>, <<"3","5",".","1","9","5">>, <<"3","5",".","1","9","6">>, <<"3","5",".","1","9","7">>,
    <<"3","5",".","1","9","8">>, <<"3","5",".","1","9","9">>, <<"3","5",".","2","0","0">>, <<"3","5",".","2","0","1">>, <<"3","5",".","2","0","2">>, <<"3","5",".","2","0","3">>,
    <<"3","5",".","2","0","4">>, <<"3","5",".","2","0","5">>, <<"3","5",".","2","0","6">>, <<"3","5",".","2","0","7">>, <<"3","5",".","2","0","8">>, <<"3","5",".","2","0","9">>,
    <<"3","5",".","2","1","0">>, <<"3","5",".","2","1","1">>, <<"3","5",".","2","1","2">>, <<"3","5",".","2","1","3">>, <<"3","5",".","2","1","4">>, <<"3","5",".","2","1","5">>,
    <<"3","5",".","2","1","6">>, <<"3","5",".","2","1","7">>, <<"3","5",".","2","1","8">>, <<"3","5",".","2","1","9">>, <<"3","5",".","2","2","0">>, <<"3","5",".","2","2","1">>,
    <<"3","5",".","2","2","2">>, <<"3","5",".","2","2","3">>, <<"3","5",".","2","2","4">>, <<"3","5",".","2","2","5">>, <<"3","5",".","2","2","6">>, <<"3","5",".","2","2","7">>,
    <<"3","5",".","2","2","8">>, <<"3","5",".","2","2","9">>, <<"3","5",".","2","3","0">>, <<"3","5",".","2","3","1">>, <<"3","5",".","2","3","2">>, <<"3","5",".","2","3","3">>,
    <<"3","5",".","2","3","4">>, <<"3","5",".","2","3","5">>, <<"3","5",".","2","3","6">>, <<"3","5",".","2","3","7">>, <<"3","5",".","2","3","8">>, <<"3","5",".","2","3","9">>,
    <<"3","5",".","2","4","0">>, <<"3","5",".","2","4","1">>, <<"3","5",".","2","4","2">>, <<"3","5",".","2","4","3">>, <<"3","5",".","2","4","4">>, <<"3","5",".","2","4","5">>,
    <<"3","5",".","2","4","6">>, <<"3","5",".","2","4","7">>, <<"1","8","5",".","2","3","0">>, <<"1","8","5",".","2","3","1">>, <<"1","8","5",".","2","3","2">>, <<"1","8","5",".","2","3","3">>,
    <<"1","8","5",".","2","3","4">>, <<"1","8","5",".","2","3","5">>, <<"1","8","5",".","2","3","6">>, <<"1","8","5",".","2","3","7">>, <<"8","9",".","1","8","7">>, <<"8","9",".","2","3","8">>,
    <<"9","1",".","1","3","2">>, <<"9","2",".","1","1","9">>, <<"1","0","3",".","8","6">>, <<"1","4","6",".","7","0">>, <<"1","4","9",".","3","4">>, <<"1","5","4",".","4","7">>,
    <<"1","6","9",".","1","5","0">>, <<"1","8","5",".","9","3">>, <<"1","8","5",".","9","4">>, <<"1","8","5",".","9","5">>, <<"1","8","5",".","1","5","6">>, <<"1","8","5",".","1","5","9">>,
    <<"1","8","5",".","2","1","2">>, <<"1","9","3",".","2","9">>, <<"1","9","3",".","3","2">>, <<"1","9","3",".","5","6">>, <<"1","9","4",".","3","5">>, <<"1","9","4",".","3","6">>,
    <<"1","9","5",".","2","0","6">>, <<"1","9","6",".","2","4","0">>, <<"1","9","8",".","4","4">>, <<"1","9","8",".","5","4">>, <<"1","9","9",".","1","1","6">>, <<"2","1","2",".","1","0","2">>,
    <<"2","1","7",".","1","3","8">>, <<"5",".","9">>, <<"4","6",".","4">>, <<"7","8",".","4","6">>, <<"7","8",".","4","7">>, <<"8","8",".","1","9","8">>,
    <<"8","8",".","9","9">>, <<"9","4",".","1","3","0">>, <<"9","5",".","2","1","6">>, <<"1","1","6",".","2","0","2">>, <<"1","1","6",".","2","0","3">>, <<"1","2","8",".","1","4","0">>,
    <<"1","3","5",".","1","8","1">>, <<"1","3","6",".","2","4","3">>, <<"1","3","8",".","2","0","1">>, <<"1","4","2",".","1","3","2">>, <<"1","4","4",".","7","6">>, <<"1","4","8",".","2","5","1">>,
    <<"1","5","7",".","9","0">>, <<"1","5","9",".","6","9">>, <<"1","6","2",".","5","5">>, <<"1","6","7",".","2","3","3">>, <<"1","6","8",".","1","1","9">>, <<"1","7","6",".","9">>,
    <<"1","7","8",".","6","3">>, <<"1","8","8",".","4","0">>, <<"1","9","5",".","2","0","1">>, <<"2","1","3",".","1","3","3">>, <<"2","1","3",".","2","3","9">>, <<"5","1",".","3","8">>,
    <<"5","1",".","6","8">>, <<"5","1",".","7","5">>, <<"5","1",".","7","7">>, <<"5","1",".","7","9">>, <<"5","1",".","8","1">>, <<"5","1",".","8","3">>,
    <<"5","1",".","8","9">>, <<"5","1",".","9","1">>, <<"5","1",".","1","6","1">>, <<"5","1",".","1","7","8">>, <<"5","1",".","1","9","5">>, <<"5","1",".","2","1","0">>,
    <<"5","1",".","2","2","2">>, <<"5","4",".","3","6">>, <<"5","4",".","3","7">>, <<"5","4",".","3","8">>, <<"5","4",".","3","9">>, <<"5","7",".","1","2","8">>,
    <<"5","7",".","1","2","9">>, <<"9","1",".","1","2","1">>, <<"9","1",".","1","3","4">>, <<"9","2",".","2","2","2">>, <<"9","4",".","2","3">>, <<"1","3","5",".","1","2","5">>,
    <<"1","3","7",".","7","4">>, <<"1","3","9",".","9","9">>, <<"1","4","1",".","9","4">>, <<"1","4","1",".","9","5">>, <<"1","4","2",".","4">>, <<"1","4","2",".","4","4">>,
    <<"1","4","4",".","2","1","7">>, <<"1","4","5",".","2","3","9">>, <<"1","4","7",".","1","3","5">>, <<"1","4","9",".","5","6">>, <<"1","5","1",".","8","0">>, <<"1","5","8",".","6","9">>,
    <<"1","6","3",".","1","7","2">>, <<"1","6","4",".","1","3","2">>, <<"1","6","7",".","1","1","4">>, <<"1","7","6",".","3","1">>, <<"1","7","8",".","3","2">>, <<"1","7","8",".","3","3">>,
    <<"1","8","5",".","1","5">>, <<"1","8","8",".","1","6","5">>, <<"1","9","2",".","9","5">>, <<"1","9","2",".","9","9">>, <<"1","9","3",".","7","0">>, <<"1","9","5",".","1","5","4">>,
    <<"1","9","8",".","2","7">>, <<"1","9","8",".","5","0">>, <<"1","9","8",".","1","0","0">>, <<"1","9","8",".","2","4","5">>, <<"2","1","3",".","3","2">>, <<"2","1","3",".","1","8","6">>,
    <<"2","1","3",".","2","5","1">>, <<"2","1","7",".","1","8","2">> }

vpnRangesOld ==
  {
    <<"1","0","4",".","2","3","8">>, <<"1","9","8",".","7",".","5","8">>, <<"1","9","2",".","2","4","1">>, <<"1","6","2",".","2","4","3">>, <<"4","5",".","3","3">>, <<"1","7","8",".","6","2">>,
    <<"1","3","9",".","5","9">>, <<"1","8","8",".","1","6","6">>, <<"2","0","6",".","1","8","9">>, <<"6","8",".","1","8","3">> }

privatePrefixes ==
  { <<"1","9","2",".","1","6","8",".">>, <<"1","0",".">>, <<"1","7","2",".">> }

privateLiterals ==
  { <<":",":","1">>, <<"1","2","7",".","0",".","0",".","1">> }

(* trust proxy 1: req.ip is the last X-Forwarded-For entry, else the socket address. *)
reqIp(req) == IF req.xff # <<>> THEN Trim(req.xff[Len(req.xff)]) ELSE req.socket

(* A variant that resolves the caller from the socket address alone. *)
socketOnly(req) == req.socket

(* forwardedFor?.split(",")[0]?.trim() || ip *)
realIpOf(req) ==
  IF req.xff # <<>> /\ Trim(req.xff[1]) # <<>> THEN Trim(req.xff[1]) ELSE reqIp(req)

isPrivateIp(ip) == ip \in privateLiterals \/ \E p \in privatePrefixes : StartsWith(ip, p)

privateIps == {ip \in SampleIps : isPrivateIp(ip)}

inVpnRanges(ip) == \E range \in vpnRanges : StartsWith(ip, range)

rangeIps == {ip \in SampleIps : inVpnRanges(ip)}

inVpnRangesOld(ip) == \E range \in vpnRangesOld : StartsWith(ip, range)

rangeIpsOld == {ip \in SampleIps : inVpnRangesOld(ip)}

VpnReject == Reject(403, "VPN/Proxy detected. Please disable VPN to continue.", "VPN_DETECTED")

CACHE_TTL == 5

(* ------------------------------- state -------------------------------- *)
VARIABLES
  variant,      \* "adminUser" | "ownerAdmin": which routes/middleware files are deployed
  env,          \* process.env: superuser username/password (<<>> when unset), VPNAPI_KEY set?
  users,        \* the account collection: document id -> document
  nextUid,      \* next fresh document id
  sessions,     \* the session store: live session id -> session.user
  nextSid,      \* next fresh session id
  authHits,     \* authLimiter's counter per req.ip in the current window
  searchHits,   \* searchLimiter's counter per req.ip in the current window
  authSeen,     \* login requests received per req.ip in the current authLimiter window
  searchSeen,   \* search requests received per req.ip in the current searchLimiter window
  ipCache,      \* detectVPN's ipCache: ip -> [isVpn, timestamp]
  now,          \* Date.now(), in minutes
  history,      \* the SearchHistory collection, in insertion order
  pending,      \* account create/update requests suspended between their lookup and their save
  resp          \* the last response sent, with the request it answers

vars == <<variant, env, users, nextUid, sessions, nextSid, authHits, searchHits,
          authSeen, searchSeen, ipCache, now, history, pending, resp>>

(* ------------------------------ roles --------------------------------- *)
PrivRole == IF variant = "adminUser" THEN "admin" ELSE "owner"
StoredRole == IF variant = "adminUser" THEN "user" ELSE "admin"

(* The loginType value that selects each branch of the login handler. *)
TypeSuper == IF variant = "adminUser" THEN sAdmin ELSE sOwner
TypeStored == IF variant = "adminUser" THEN sUser ELSE sAdmin

NoIdentity == [id |-> <<"none", 0>>, username |-> <<>>, name |-> <<>>, role |-> "none"]

(* The literal sentinel id of the environment-configured superuser. *)
SentinelId == IF variant = "adminUser" THEN <<"admin", 0>> ELSE <<"owner", 0>>

SuperIdentity ==
  [id |-> SentinelId, username |-> env.username,
   name |-> IF variant = "adminUser" THEN sSystemAdmin ELSE sSystemOwner,
   role |-> PrivRole]

StoredIdentity(uid) ==
  [id |-> <<"oid", uid>>, username |-> users[uid].username, name |-> users[uid].name,
   role |-> StoredRole]

(* req.session.user of the request's session cookie. *)
sessionUser(req) == IF req.sid \in DOMAIN sessions THEN sessions[req.sid] ELSE NoIdentity

(* ------------------- auth and role checks, VPN check ------------------ *)
requireAuth(req) ==
  IF sessionUser(req) = NoIdentity THEN Reject(401, "Unauthorized", "") ELSE Pass

(* A variant of requireOwner that checks the session only, not its role. *)
requireOwnerAnyRole(req) ==
  IF sessionUser(req) = NoIdentity THEN Reject(401, "Unauthorized", "") ELSE Pass

requireOwner(req) ==
  IF sessionUser(req) = NoIdentity THEN Reject(401, "Unauthorized", "")
  ELSE IF sessionUser(req).role # "owner"
       THEN Reject(403, "Forbidden - Owner access required", "")
  ELSE Pass

(* The admin/user counterpart of requireOwner. *)
requireAdmin(req) ==
  IF sessionUser(req) = NoIdentity THEN Reject(401, "Unauthorized", "")
  ELSE IF sessionUser(req).role # "admin"
       THEN Reject(403, "Forbidden - Admin access required", "")
  ELSE Pass

(* A variant of detectVPN that never consults ipCache. *)
detectVPNUncached(req) ==
  LET realIp == realIpOf(req) IN
  IF realIp \in privateIps THEN [v |-> Pass, cache |-> ipCache]
  ELSE IF realIp \in rangeIps THEN [v |-> VpnReject, cache |-> ipCache]
  ELSE IF env.vpnapiKey /\ req.vpnapi \in {"vpn", "clean"}
       THEN [v |-> IF req.vpnapi = "vpn" THEN VpnReject ELSE Pass,
             cache |-> [ip \in DOMAIN ipCache \cup {realIp} |->
                          IF ip = realIp
                          THEN [isVpn |-> req.vpnapi = "vpn", timestamp |-> now]
                          ELSE ipCache[ip]]]
  ELSE [v |-> Pass, cache |-> ipCache]

(* A variant of detectVPN that rejects when the vpnapi.io lookup fails. *)
detectVPNFailClosed(req) ==
  LET realIp == realIpOf(req) IN
  IF realIp \in privateIps THEN [v |-> Pass, cache |-> ipCache]
  ELSE IF realIp \in rangeIps THEN [v |-> VpnReject, cache |-> ipCache]
  ELSE IF realIp \in DOMAIN ipCache /\ now - ipCache[realIp].timestamp < CACHE_TTL
       THEN [v |-> IF ipCache[realIp].isVpn THEN VpnReject ELSE Pass, cache |-> ipCache]
  ELSE IF env.vpnapiKey /\ req.vpnapi \in {"vpn", "clean"}
       THEN [v |-> IF req.vpnapi = "vpn" THEN VpnReject ELSE Pass,
             cache |-> [ip \in DOMAIN ipCache \cup {realIp} |->
                          IF ip = realIp
                          THEN [isVpn |-> req.vpnapi = "vpn", timestamp |-> now]
                          ELSE ipCache[ip]]]
  ELSE [v |-> IF env.vpnapiKey THEN VpnReject ELSE Pass, cache |-> ipCache]

(* detectVPN of the admin/user middleware: the verdict and the ipCache it leaves. *)
(* req.vpnapi is what vpnapi.io would answer: "vpn", "clean", "notok" or "timeout". *)
detectVPN(req) ==
  LET realIp == realIpOf(req) IN
  IF realIp \in privateIps THEN [v |-> Pass, cache |-> ipCache]
  ELSE IF realIp \in rangeIps THEN [v |-> VpnReject, cache |-> ipCache]
  ELSE IF realIp \in DOMAIN ipCache /\ now - ipCache[realIp].timestamp < CACHE_TTL
       THEN [v |-> IF ipCache[realIp].isVpn THEN VpnReject ELSE Pass, cache |-> ipCache]
  ELSE IF env.vpnapiKey /\ req.vpnapi \in {"vpn", "clean"}
       THEN [v |-> IF req.vpnapi = "vpn" THEN VpnReject ELSE Pass,
             cache |-> [ip \in DOMAIN ipCache \cup {realIp} |->
                          IF ip = realIp
                          THEN [isVpn |-> req.vpnapi = "vpn", timestamp |-> now]
                          ELSE ipCache[ip]]]
  ELSE [v |-> Pass, cache |-> ipCache]

(* detectVPN of the owner/admin middleware: the short static table only. *)
detectVPNOld(req) ==
  IF realIpOf(req) \in rangeIpsOld THEN VpnReject ELSE Pass

(* ----------------------------- rate limits ---------------------------- *)
AUTH_MAX == 10
SEARCH_MAX == 30

HitsOf(counter, ip) == IF ip \in DOMAIN counter THEN counter[ip] ELSE 0

Bump(counter, ip) ==
  [k \in DOMAIN counter \cup {ip} |-> IF k = ip THEN HitsOf(counter, ip) + 1 ELSE counter[k]]

(* A limiter that refuses only once the count before the request exceeds max. *)
limiterPassesLate(hitsBefore, max) == hitsBefore <= max

(* express-rate-limit: the request is counted, then refused when the count exceeds max. *)
limiterPasses(hitsBefore, max) == hitsBefore + 1 <= max

authLimiter(req) ==
  IF limiterPasses(HitsOf(authHits, reqIp(req)), AUTH_MAX) THEN Pass
  ELSE Reject(429, "Too many login attempts. Please try again later.", "")

(* A search limiter that never refuses. *)
searchLimiterOff(req) == Pass

searchLimiter(req) ==
  IF limiterPasses(HitsOf(searchHits, reqIp(req)), SEARCH_MAX) THEN Pass
  ELSE Reject(429, "Too many requests. Please slow down.", "")

(* ------------------------- the middleware chain ----------------------- *)
PathOf(route) ==
  CASE route = "login" -> <<"/","a","p","i","/","a","u","t","h","/","l","o","g","i","n">>
    [] route = "me" -> <<"/","a","p","i","/","a","u","t","h","/","m","e">>
    [] route = "logout" -> <<"/","a","p","i","/","a","u","t","h","/","l","o","g","o","u","t">>
    [] route = "stats" -> <<"/","a","p","i","/","a","d","m","i","n","/","s","t","a","t","s">>
    [] route = "list" -> <<"/","a","p","i","/","a","d","m","i","n","/","u","s","e","r","s">>
    [] route = "create" -> <<"/","a","p","i","/","a","d","m","i","n","/","u","s","e","r","s">>
    [] route = "update" -> <<"/","a","p","i","/","a","d","m","i","n","/","u","s","e","r","s","/","1">>
    [] route = "delete" -> <<"/","a","p","i","/","a","d","m","i","n","/","u","s","e","r","s","/","1">>
    [] route = "details" -> <<"/","a","p","i","/","a","d","m","i","n","/","u","s","e","r","s","/","1","/","d","e","t","a","i","l","s">>
    [] route = "features" -> <<"/","a","p","i","/","a","d","m","i","n","/","u","s","e","r","s","/","1","/","f","e","a","t","u","r","e","s">>
    [] route = "userFeatures" -> <<"/","a","p","i","/","u","s","e","r","/","f","e","a","t","u","r","e","s">>
    [] route = "page" -> <<"/">>
    [] route = "search_mobile" -> <<"/","a","p","i","/","s","e","a","r","c","h","/","m","o","b","i","l","e">>
    [] route = "search_email" -> <<"/","a","p","i","/","s","e","a","r","c","h","/","e","m","a","i","l">>
    [] route = "search_aadhar" -> <<"/","a","p","i","/","s","e","a","r","c","h","/","a","a","d","h","a","r">>
    [] route = "search_pan" -> <<"/","a","p","i","/","s","e","a","r","c","h","/","p","a","n">>
    [] route = "search_vehicle-challan" -> <<"/","a","p","i","/","s","e","a","r","c","h","/","v","e","h","i","c","l","e","-","c","h","a","l","l","a","n">>
    [] route = "search_vehicle-info" -> <<"/","a","p","i","/","s","e","a","r","c","h","/","v","e","h","i","c","l","e","-","i","n","f","o">>
    [] route = "search_ip" -> <<"/","a","p","i","/","s","e","a","r","c","h","/","i","p">>
    [] route = "search_id" -> <<"/","a","p","i","/","s","e","a","r","c","h","/","i","d">>

(* The search routes each variant registers. *)
SearchRoutes ==
  IF variant = "adminUser"
  THEN {"search_mobile", "search_email", "search_aadhar", "search_pan",
        "search_vehicle-challan", "search_vehicle-info", "search_ip"}
  ELSE {"search_mobile", "search_email", "search_id"}

(* The privileged account-management routes each variant registers. *)
PrivilegedRoutes ==
  IF variant = "adminUser"
  THEN {"stats", "list", "create", "update", "delete", "details", "features"}
  ELSE {"stats", "list", "create", "update", "delete"}

IsSearch(route) == route \in SearchRoutes

IsPrivileged(route) == route \in PrivilegedRoutes

(* app.use(...) in registration order; the session middleware before them never rejects. *)
GlobalChain ==
  IF variant = "adminUser"
  THEN <<"securityHeaders", "preventInterception", "apiProtection">>
  ELSE <<"securityHeaders", "preventInterception">>

(* A registration that puts the VPN check in front of the other route middleware. *)
RouteChainVpnFirst(route) ==
  IF route = "login" THEN <<"detectVPN", "authLimiter">>
  ELSE IF IsPrivileged(route)
       THEN <<"detectVPN", IF variant = "adminUser" THEN "requireAdmin" ELSE "requireOwner">>
  ELSE IF IsSearch(route) THEN <<"detectVPN", "requireAuth", "searchLimiter">>
  ELSE IF route = "userFeatures" THEN <<"requireAuth">>
  ELSE <<>>

(* The middleware list each route is registered with. *)
RouteChain(route) ==
  IF route = "login" THEN <<"authLimiter", "detectVPN">>
  ELSE IF IsPrivileged(route)
       THEN <<IF variant = "adminUser" THEN "requireAdmin" ELSE "requireOwner", "detectVPN">>
  ELSE IF IsSearch(route) THEN <<"requireAuth", "searchLimiter", "detectVPN">>
  ELSE IF route = "userFeatures" THEN <<"requireAuth">>
  ELSE <<>>

Chain(route) == GlobalChain \o RouteChain(route)

(* One middleware's verdict on a request, in the state the request arrives in. *)
Verdict(name, route, req) ==
  CASE name = "securityHeaders" -> Pass
    [] name = "preventInterception" -> preventInterception(req)
    [] name = "apiProtection" -> apiProtection(req, PathOf(route))
    [] name = "authLimiter" -> authLimiter(req)
    [] name = "searchLimiter" -> searchLimiter(req)
    [] name = "requireAuth" -> requireAuth(req)
    [] name = "requireAdmin" -> requireAdmin(req)
    [] name = "requireOwner" -> requireOwner(req)
    [] name = "detectVPN" ->
         IF variant = "adminUser" THEN detectVPN(req).v ELSE detectVPNOld(req)

(* Express runs the chain in order; a middleware that responds does not call next(). *)
RECURSIVE RunFrom(_, _, _, _)
RunFrom(chain, i, route, req) ==
  IF i > Len(chain) THEN <<>>
  ELSE IF Verdict(chain[i], route, req).pass
       THEN <<chain[i]>> \o RunFrom(chain, i + 1, route, req)
  ELSE <<chain[i]>>

(* trace: the middleware that ran, in order; v: Pass, or the rejection sent. *)
GateRun(route, req) ==
  LET trace == RunFrom(Chain(route), 1, route, req)
      last == IF trace = <<>> THEN Pass ELSE Verdict(trace[Len(trace)], route, req)
  IN [trace |-> trace, v |-> last]

Ran(g, name) == \E i \in 1..Len(g.trace) : g.trace[i] = name

(* What the chain leaves behind whether or not the handler runs. *)
GateEffects(g, route, req) ==
  /\ authHits' = IF Ran(g, "authLimiter") THEN Bump(authHits, reqIp(req)) ELSE authHits
  /\ searchHits' = IF Ran(g, "searchLimiter") THEN Bump(searchHits, reqIp(req))
                   ELSE searchHits
  /\ ipCache' = IF Ran(g, "detectVPN") /\ variant = "adminUser"
                THEN detectVPN(req).cache ELSE ipCache
  /\ authSeen' = IF route = "login" THEN Bump(authSeen, reqIp(req)) ELSE authSeen
  /\ searchSeen' = IF IsSearch(route) THEN Bump(searchSeen, reqIp(req)) ELSE searchSeen

(* ------------------------------ responses ----------------------------- *)
(* A handler's result: status, error text, the identity and session id it  *)
(* put into the response (login), the payload, outbound calls it issued.   *)
Result(st, err, user, sid, data, outb) ==
  [status |-> st, error |-> err, user |-> user, sid |-> sid, data |-> data,
   outbound |-> outb]

Fail(st, err) == Result(st, err, NoIdentity, 0, <<>>, 0)

Ok(st, data) == Result(st, "", NoIdentity, 0, data, 0)

(* The response to req: the chain's rejection, or else the handler's result h. *)
(* hit: the limiter's count of this request (0 when no limiter ran); nth: the  *)
(* request's position among the login (search) requests of its address in the *)
(* current window.                                                             *)
ResponseOf(route, req, trace, v, h) ==
  [route |-> route, req |-> req, trace |-> trace, handler |-> v.pass,
   status |-> IF v.pass THEN h.status ELSE v.status,
   error |-> IF v.pass THEN h.error ELSE v.error,
   code |-> IF v.pass THEN "" ELSE v.code,
   user |-> IF v.pass THEN h.user ELSE NoIdentity,
   sid |-> IF v.pass THEN h.sid ELSE 0,
   data |-> IF v.pass THEN h.data ELSE <<>>,
   outbound |-> IF v.pass THEN h.outbound ELSE 0,
   cors |-> (\E i \in 1..Len(trace) : trace[i] = "apiProtection")
            /\ corsHeadersSet(req, PathOf(route)),
   hit |-> IF \E i \in 1..Len(trace) : trace[i] = "authLimiter"
           THEN HitsOf(authHits, reqIp(req)) + 1
           ELSE IF \E i \in 1..Len(trace) : trace[i] = "searchLimiter"
           THEN HitsOf(searchHits, reqIp(req)) + 1
           ELSE 0,
   nth |-> IF route = "login" THEN HitsOf(authSeen, reqIp(req)) + 1
           ELSE IF IsSearch(route) THEN HitsOf(searchSeen, reqIp(req)) + 1
           ELSE 0]

Response(route, req, g, h) == ResponseOf(route, req, g.trace, g.v, h)

(* --------------------------- credential store ------------------------- *)
NoDate == -1

(* bcrypt, as a one-way function: the hash of a password, and compare. *)
bcryptHash(pw) == [hash |-> pw]
bcryptCompare(pw, h) == h = bcryptHash(pw)

defaultFeatures == <<"mobile", "email", "aadhar", "pan", "vehicle-info", "vehicle-challan">>

ALL_FEATURES == <<"mobile", "email", "aadhar", "pan", "vehicle-info", "vehicle-challan", "ip">>

Least(S) == CHOOSE x \in S : \A y \in S : x <= y

(* A query value against a stored string: a string matches by equality; the *)
(* object stands for an operator document such as {"$ne": null}, which      *)
(* matches every stored value.                                              *)
QueryMatch(q, val) == IF IsString(q) THEN val = q.v ELSE q.t = "object"

(* findOne returns the first match in natural (insertion) order, 0 for null. *)
FindOne(matches) == IF matches = {} THEN 0 ELSE Least(matches)

(* ------------------------------- login -------------------------------- *)
LoginFail(st, err) == [status |-> st, error |-> err, kind |-> "fail", uid |-> 0]
LoginSuper == [status |-> 200, error |-> "", kind |-> "super", uid |-> 0]
LoginStored(uid) == [status |-> 200, error |-> "", kind |-> "stored", uid |-> uid]

(* A comparison that looks at the username only. *)
superMatchesUsernameOnly(username, password) == username = env.username

(* username === ADMIN_USERNAME && password === ADMIN_PASSWORD *)
superMatches(username, password) == username = env.username /\ password = env.password

(* POST /api/auth/login of the admin/user routes. *)
loginAdminUser(body) ==
  LET username == sanitizeString(body.username)
      password == sanitizeString(body.password)
      loginType == sanitizeString(body.loginType)
      user == FindOne({u \in DOMAIN users :
                         users[u].username = username /\ users[u].status = sActive})
  IN
  IF username = <<>> \/ password = <<>> \/ loginType = <<>>
  THEN LoginFail(400, "Missing credentials")
  ELSE IF ~IsString(body.username) \/ ~IsString(body.password)
  THEN LoginFail(400, "Invalid input format")
  ELSE IF loginType = sAdmin
  THEN IF env.username = <<>> \/ env.password = <<>>
       THEN LoginFail(401, "Invalid admin credentials")
       ELSE IF superMatches(username, password)
       THEN LoginSuper
       ELSE LoginFail(401, "Invalid admin credentials")
  ELSE IF loginType = sUser
  THEN IF user = 0
       THEN LoginFail(401, "Invalid credentials or account inactive")
       ELSE IF ~bcryptCompare(password, users[user].password)
       THEN LoginFail(401, "Invalid credentials")
       ELSE LoginStored(user)
  ELSE LoginFail(400, "Invalid login type")

(* POST /api/auth/login of the owner/admin routes: the body is used as received. *)
loginOwnerAdmin(body) ==
  LET admin == FindOne({u \in DOMAIN users :
                          QueryMatch(body.username, users[u].username)
                          /\ users[u].status = sActive})
  IN
  IF ~Truthy(body.username) \/ ~Truthy(body.password) \/ ~Truthy(body.loginType)
  THEN LoginFail(400, "Missing credentials")
  ELSE IF body.loginType = JStr(sOwner)
  THEN IF IsString(body.username) /\ IsString(body.password)
          /\ superMatches(body.username.v, body.password.v)
       THEN LoginSuper
       ELSE LoginFail(401, "Invalid owner credentials")
  ELSE IF body.loginType = JStr(sAdmin)
  THEN IF admin = 0
       THEN LoginFail(401, "Invalid credentials or account inactive")
       ELSE IF ~IsString(body.password)
       THEN LoginFail(500, "Login failed")   \* bcrypt.compare throws on a non-string
       ELSE IF ~bcryptCompare(body.password.v, users[admin].password)
       THEN LoginFail(401, "Invalid credentials")
       ELSE LoginStored(admin)
  ELSE LoginFail(400, "Invalid login type")

loginOutcome(body) ==
  IF variant = "adminUser" THEN loginAdminUser(body) ELSE loginOwnerAdmin(body)

(* req.session.regenerate (admin/user): the request's session is destroyed  *)
(* and a fresh id issued.  The owner/admin login assigns req.session.user   *)
(* on the session the request came with, fresh only if it had none.         *)
loginRegenerates == variant = "adminUser"

loginSid(req) ==
  IF ~loginRegenerates /\ req.sid \in DOMAIN sessions THEN req.sid ELSE nextSid

sessionsAfterLogin(req, ident) ==
  LET keep == IF loginRegenerates THEN DOMAIN sessions \ {req.sid} ELSE DOMAIN sessions
  IN [s \in keep \cup {loginSid(req)} |-> IF s = loginSid(req) THEN ident ELSE sessions[s]]

Login(req) ==
  LET g == GateRun("login", req)
      out == loginOutcome(req.body)
      ident == IF out.kind = "super" THEN SuperIdentity ELSE StoredIdentity(out.uid)
      created == g.v.pass /\ out.kind # "fail"
  IN
  /\ created => loginSid(req) <= MaxSid
  /\ GateEffects(g, "login", req)
  /\ users' = IF created /\ out.kind = "stored"
              THEN [users EXCEPT ![out.uid].lastLogin = now] ELSE users
  /\ sessions' = IF created THEN sessionsAfterLogin(req, ident) ELSE sessions
  /\ nextSid' = IF created /\ loginSid(req) = nextSid THEN nextSid + 1 ELSE nextSid
  /\ resp' = Response("login", req, g,
                      IF out.kind = "fail" THEN Fail(out.status, out.error)
                      ELSE Result(200, "", ident, loginSid(req), <<>>, 0))
  /\ UNCHANGED <<variant, env, nextUid, now, history, pending>>

(* The authLimiter window (15 minutes) ends: its counters start again. *)
AuthWindowReset ==
  /\ authHits # <<>> \/ authSeen # <<>>
  /\ authHits' = <<>>
  /\ authSeen' = <<>>
  /\ UNCHANGED <<variant, env, users, nextUid, sessions, nextSid, searchHits,
                 searchSeen, ipCache, now, history, pending, resp>>

(* The searchLimiter window (60 seconds) ends. *)
SearchWindowReset ==
  /\ searchHits # <<>> \/ searchSeen # <<>>
  /\ searchHits' = <<>>
  /\ searchSeen' = <<>>
  /\ UNCHANGED <<variant, env, users, nextUid, sessions, nextSid, authHits,
                 authSeen, ipCache, now, history, pending, resp>>

(* ------------------------- account documents -------------------------- *)
(* A stored document; the admin/user schema has features, the owner/admin one has not. *)
Doc(v, username, hash, name, email, status, created) ==
  IF v = "adminUser"
  THEN [username |-> username, password |-> hash, name |-> name, email |-> email,
        status |-> status, features |-> defaultFeatures, createdAt |-> created,
        lastLogin |-> NoDate]
  ELSE [username |-> username, password |-> hash, name |-> name, email |-> email,
        status |-> status, createdAt |-> created, lastLogin |-> NoDate]

(* toObject(): the document's fields with its _id. *)
toObject(uid, doc) ==
  [f \in DOMAIN doc \cup {"_id"} |-> IF f = "_id" THEN uid ELSE doc[f]]

(* A response object that keeps every field. *)
deletePasswordSkipped(obj) == obj

(* delete userResponse.password *)
deletePassword(obj) == [f \in DOMAIN obj \ {"password"} |-> obj[f]]

(* .select("-password") *)
selectMinusPassword(obj) == [f \in DOMAIN obj \ {"password"} |-> obj[f]]

(* Schema validation at save: required, minlength and enum validators. *)
schemaValid(doc) ==
  /\ doc.username # <<>> /\ doc.name # <<>> /\ doc.email # <<>>
  /\ Len(doc.username) >= 3
  /\ Len(doc.name) >= 2
  /\ doc.status \in {sActive, sInactive}

(* A collection without the unique indexes. *)
uniqueIndexAbsent(doc, self) == TRUE

(* unique: true on username and on email: a write that would duplicate either fails. *)
uniqueIndexAllows(doc, self) ==
  \A u \in DOMAIN users \ {self} :
    users[u].username # doc.username /\ users[u].email # doc.email

(* ----------------- input validation (admin/user routes) --------------- *)
Digits == <<"0","1","2","3","4","5","6","7","8","9">>

UsernameChars ==
  {LowerChars[i] : i \in 1..Len(LowerChars)} \cup {UpperChars[i] : i \in 1..Len(UpperChars)}
    \cup {Digits[i] : i \in 1..Len(Digits)} \cup {"_"}

(* /^[a-zA-Z0-9_]{3,50}$/ *)
isValidUsername(username) ==
  /\ Len(username) >= 3 /\ Len(username) <= 50
  /\ \A i \in 1..Len(username) : username[i] \in UsernameChars

isValidPassword(password) == Len(password) >= 6 /\ Len(password) <= 100

(* /^[^\s@]+@[^\s@]+\.[^\s@]+$/ and at most 255 characters *)
isValidEmail(email) ==
  /\ Len(email) <= 255
  /\ \A i \in 1..Len(email) : ~IsSpace(email[i])
  /\ \E a \in 2..Len(email) :
       /\ email[a] = "@"
       /\ \A i \in 1..Len(email) : email[i] = "@" => i = a
       /\ \E d \in (a + 2)..(Len(email) - 1) : email[d] = "."

(* ------------------------- account management ------------------------- *)
notFoundError == IF variant = "adminUser" THEN "User not found" ELSE "Admin not found"
createError == IF variant = "adminUser" THEN "Failed to create user" ELSE "Failed to create admin"
updateError == IF variant = "adminUser" THEN "Failed to update user" ELSE "Failed to update admin"

NoDoc == Doc(variant, <<>>, bcryptHash(<<>>), <<>>, <<>>, <<>>, 0)

(* The lookup phase either answers at once or leaves a document to be saved. *)
Respond(h) == [respond |-> TRUE, h |-> h, doc |-> NoDoc, set |-> {}, castOk |-> TRUE]
Defer(doc, set, castOk) ==
  [respond |-> FALSE, h |-> Fail(0, ""), doc |-> doc, set |-> set, castOk |-> castOk]

StrOf(x) == IF IsString(x) THEN x.v ELSE <<>>

(* POST /api/admin/users up to the save. *)
createPlanAdminUser(body) ==
  LET username == sanitizeString(body.username)
      password == sanitizeString(body.password)
      name == sanitizeString(body.name)
      email == sanitizeString(body.email)
      status == sanitizeString(body.status)
  IN
  IF username = <<>> \/ password = <<>> \/ name = <<>> \/ email = <<>>
  THEN Respond(Fail(400, "All fields are required"))
  ELSE IF ~isValidUsername(username)
  THEN Respond(Fail(400, "Username must be 3-50 alphanumeric characters or underscores"))
  ELSE IF ~isValidPassword(password)
  THEN Respond(Fail(400, "Password must be 6-100 characters"))
  ELSE IF ~isValidEmail(email)
  THEN Respond(Fail(400, "Invalid email format"))
  ELSE IF Len(name) < 2 \/ Len(name) > 100
  THEN Respond(Fail(400, "Name must be 2-100 characters"))
  ELSE IF \E u \in DOMAIN users : users[u].username = username \/ users[u].email = email
  THEN Respond(Fail(400, "Username or email already exists"))
  ELSE Defer(Doc(variant, username, bcryptHash(password), name, email,
                 IF status = sInactive THEN sInactive ELSE sActive, now),
             {}, TRUE)

(* POST /api/owner/admins up to the save: the body is used as received. *)
createPlanOwnerAdmin(body) ==
  IF ~Truthy(body.username) \/ ~Truthy(body.password) \/ ~Truthy(body.name)
     \/ ~Truthy(body.email)
  THEN Respond(Fail(400, "All fields are required"))
  ELSE IF \E u \in DOMAIN users :
            \/ QueryMatch(body.username, users[u].username)
            \/ QueryMatch(body.email, users[u].email)
  THEN Respond(Fail(400, "Username or email already exists"))
  ELSE IF ~IsString(body.password)
  THEN Respond(Fail(500, createError))   \* bcrypt.hash throws on a non-string
  ELSE Defer(Doc(variant, StrOf(body.username), bcryptHash(body.password.v),
                 StrOf(body.name), StrOf(body.email),
                 IF Truthy(body.status) THEN StrOf(body.status) ELSE sActive, now),
             {},
             /\ IsString(body.username) /\ IsString(body.name) /\ IsString(body.email)
             /\ (Truthy(body.status) => IsString(body.status)))

createPlan(body) ==
  IF variant = "adminUser" THEN createPlanAdminUser(body) ELSE createPlanOwnerAdmin(body)

(* user.<field> = value, for the fields the handler assigns. *)
Assign(doc, field, x) == IF IsString(x) THEN [doc EXCEPT ![field] = x.v] ELSE doc

(* PUT /api/admin/users/:id (and /api/owner/admins/:id) up to the save. *)
updatePlan(id, body) ==
  LET user == users[id]
      newUsername == Truthy(body.username) /\ body.username # JStr(user.username)
      newEmail == Truthy(body.email) /\ body.email # JStr(user.email)
      d1 == IF newUsername THEN Assign(user, "username", body.username) ELSE user
      d2 == IF newEmail THEN Assign(d1, "email", body.email) ELSE d1
      d3 == IF Truthy(body.name) THEN Assign(d2, "name", body.name) ELSE d2
      d4 == IF Truthy(body.status) THEN Assign(d3, "status", body.status) ELSE d3
      d5 == IF Truthy(body.password)
            THEN [d4 EXCEPT !.password = bcryptHash(StrOf(body.password))] ELSE d4
      set == {f \in {"username"} : newUsername} \cup {f \in {"email"} : newEmail}
             \cup {f \in {"name"} : Truthy(body.name)}
             \cup {f \in {"status"} : Truthy(body.status)}
             \cup {f \in {"password"} : Truthy(body.password)}
  IN
  IF id \notin DOMAIN users THEN Respond(Fail(404, notFoundError))
  ELSE IF newUsername
          /\ \E u \in DOMAIN users : QueryMatch(body.username, users[u].username)
  THEN Respond(Fail(400, "Username already exists"))
  ELSE IF newEmail /\ \E u \in DOMAIN users : QueryMatch(body.email, users[u].email)
  THEN Respond(Fail(400, "Email already exists"))
  ELSE IF Truthy(body.password) /\ ~IsString(body.password)
  THEN Respond(Fail(500, updateError))   \* bcrypt.hash throws on a non-string
  ELSE Defer(d5, set,
             /\ (newUsername => IsString(body.username))
             /\ (newEmail => IsString(body.email))
             /\ (Truthy(body.name) => IsString(body.name))
             /\ (Truthy(body.status) => IsString(body.status)))

Suspended(kind, req, g, plan) ==
  [kind |-> kind, req |-> req, trace |-> g.trace, doc |-> plan.doc, set |-> plan.set,
   castOk |-> plan.castOk]

Without(seq, i) == SubSeq(seq, 1, i - 1) \o SubSeq(seq, i + 1, Len(seq))

(* POST create: the middleware chain, the checks and the duplicate lookup. *)
CreateLookup(req) ==
  LET g == GateRun("create", req)
      plan == createPlan(req.body)
      defer == g.v.pass /\ ~plan.respond
  IN
  /\ defer => Len(pending) < MaxPending
  /\ GateEffects(g, "create", req)
  /\ pending' = IF defer THEN Append(pending, Suspended("create", req, g, plan))
                ELSE pending
  /\ resp' = IF defer THEN resp ELSE Response("create", req, g, plan.h)
  /\ UNCHANGED <<variant, env, users, nextUid, sessions, nextSid, now, history>>

(* POST create: user.save() and the response. *)
CreateSave(i) ==
  /\ i \in DOMAIN pending
  /\ pending[i].kind = "create"
  /\ LET p == pending[i]
         ok == p.castOk /\ schemaValid(p.doc) /\ uniqueIndexAllows(p.doc, 0)
     IN
     /\ ok => nextUid <= MaxUsers
     /\ users' = IF ok
                 THEN [u \in DOMAIN users \cup {nextUid} |->
                         IF u = nextUid THEN p.doc ELSE users[u]]
                 ELSE users
     /\ nextUid' = IF ok THEN nextUid + 1 ELSE nextUid
     /\ resp' = ResponseOf("create", p.req, p.trace, Pass,
                           IF ok THEN Ok(201, <<deletePassword(toObject(nextUid, p.doc))>>)
                           ELSE Fail(500, createError))
  /\ pending' = Without(pending, i)
  /\ UNCHANGED <<variant, env, sessions, nextSid, authHits, searchHits, authSeen,
                 searchSeen, ipCache, now, history>>

(* A variant of the update that writes each accepted field at once. *)
UpdateLookupEager(req) ==
  LET g == GateRun("update", req)
      plan == updatePlan(req.id, req.body)
      defer == g.v.pass /\ ~plan.respond
      renamed == /\ g.v.pass /\ plan.respond /\ plan.h.error = "Email already exists"
                 /\ IsString(req.body.username) /\ Truthy(req.body.username)
  IN
  /\ defer => Len(pending) < MaxPending
  /\ GateEffects(g, "update", req)
  /\ pending' = IF defer THEN Append(pending, Suspended("update", req, g, plan))
                ELSE pending
  /\ resp' = IF defer THEN resp ELSE Response("update", req, g, plan.h)
  /\ users' = IF renamed THEN [users EXCEPT ![req.id].username = req.body.username.v]
              ELSE users
  /\ UNCHANGED <<variant, env, nextUid, sessions, nextSid, now, history>>

(* PUT update: the middleware chain, findById and the duplicate lookups. *)
UpdateLookup(req) ==
  LET g == GateRun("update", req)
      plan == updatePlan(req.id, req.body)
      defer == g.v.pass /\ ~plan.respond
  IN
  /\ defer => Len(pending) < MaxPending
  /\ GateEffects(g, "update", req)
  /\ pending' = IF defer THEN Append(pending, Suspended("update", req, g, plan))
                ELSE pending
  /\ resp' = IF defer THEN resp ELSE Response("update", req, g, plan.h)
  /\ UNCHANGED <<variant, env, users, nextUid, sessions, nextSid, now, history>>

(* A variant of the save that writes the whole document as it was read. *)
UpdateSaveWhole(i) ==
  /\ i \in DOMAIN pending
  /\ pending[i].kind = "update"
  /\ LET p == pending[i]
         id == p.req.id
         ok == /\ id \in DOMAIN users
               /\ p.castOk /\ schemaValid(p.doc)
               /\ uniqueIndexAllows(p.doc, id)
     IN
     /\ users' = IF ok THEN [users EXCEPT ![id] = p.doc] ELSE users
     /\ resp' = ResponseOf("update", p.req, p.trace, Pass,
                           IF ok THEN Ok(200, <<deletePassword(toObject(id, p.doc))>>)
                           ELSE Fail(500, updateError))
  /\ pending' = Without(pending, i)
  /\ UNCHANGED <<variant, env, nextUid, sessions, nextSid, authHits, searchHits,
                 authSeen, searchSeen, ipCache, now, history>>

(* PUT update: user.save() writes the modified paths; a document deleted in *)
(* the meantime, a failed validator or a duplicate key makes it throw.      *)
UpdateSave(i) ==
  /\ i \in DOMAIN pending
  /\ pending[i].kind = "update"
  /\ LET p == pending[i]
         id == p.req.id
         merged == [f \in DOMAIN users[id] |->
                      IF f \in p.set THEN p.doc[f] ELSE users[id][f]]
         ok == /\ id \in DOMAIN users
               /\ p.castOk /\ schemaValid(p.doc)
               /\ uniqueIndexAllows(merged, id)
     IN
     /\ users' = IF ok THEN [users EXCEPT ![id] = merged] ELSE users
     /\ resp' = ResponseOf("update", p.req, p.trace, Pass,
                           IF ok THEN Ok(200, <<deletePassword(toObject(id, p.doc))>>)
                           ELSE Fail(500, updateError))
  /\ pending' = Without(pending, i)
  /\ UNCHANGED <<variant, env, nextUid, sessions, nextSid, authHits, searchHits,
                 authSeen, searchSeen, ipCache, now, history>>

(* A variant of the delete that also destroys the deleted account's sessions. *)
DeleteAndLogout(req) ==
  LET g == GateRun("delete", req)
      found == req.id \in DOMAIN users
      gone == g.v.pass /\ found
  IN
  /\ GateEffects(g, "delete", req)
  /\ users' = IF gone THEN [u \in DOMAIN users \ {req.id} |-> users[u]] ELSE users
  /\ sessions' = IF gone
                 THEN [s \in {t \in DOMAIN sessions : sessions[t].id # <<"oid", req.id>>}
                         |-> sessions[s]]
                 ELSE sessions
  /\ resp' = Response("delete", req, g,
                      IF found THEN Ok(200, <<>>) ELSE Fail(404, notFoundError))
  /\ UNCHANGED <<variant, env, nextUid, nextSid, now, history, pending>>

(* DELETE: findByIdAndDelete. *)
Delete(req) ==
  LET g == GateRun("delete", req)
      found == req.id \in DOMAIN users
  IN
  /\ GateEffects(g, "delete", req)
  /\ users' = IF g.v.pass /\ found
              THEN [u \in DOMAIN users \ {req.id} |-> users[u]] ELSE users
  /\ resp' = Response("delete", req, g,
                      IF found THEN Ok(200, <<>>) ELSE Fail(404, notFoundError))
  /\ UNCHANGED <<variant, env, nextUid, sessions, nextSid, now, history, pending>>

DAY == 1440

(* GET stats: three counts. *)
Stats(req) ==
  LET g == GateRun("stats", req)
      counts == [total |-> Cardinality(DOMAIN users),
                 active |-> Cardinality({u \in DOMAIN users : users[u].status = sActive}),
                 recentSearches |->
                   Cardinality({i \in DOMAIN history : history[i].timestamp >= now - DAY})]
  IN
  /\ GateEffects(g, "stats", req)
  /\ resp' = Response("stats", req, g, Ok(200, <<counts>>))
  /\ UNCHANGED <<variant, env, users, nextUid, sessions, nextSid, now, history, pending>>

(* sort({ createdAt: -1 }); equal dates in insertion order. *)
RECURSIVE SortByCreatedDesc(_)
SortByCreatedDesc(ids) ==
  IF ids = {} THEN <<>>
  ELSE LET first == CHOOSE u \in ids : \A w \in ids :
                      \/ users[w].createdAt < users[u].createdAt
                      \/ (users[w].createdAt = users[u].createdAt /\ u <= w)
       IN <<first>> \o SortByCreatedDesc(ids \ {first})

(* GET list: every document without its password. *)
List(req) ==
  LET g == GateRun("list", req)
      order == SortByCreatedDesc(DOMAIN users)
  IN
  /\ GateEffects(g, "list", req)
  /\ resp' = Response("list", req, g,
                      Ok(200, [i \in 1..Len(order) |->
                                 selectMinusPassword(toObject(order[i], users[order[i]]))]))
  /\ UNCHANGED <<variant, env, users, nextUid, sessions, nextSid, now, history, pending>>

Reverse(seq) == [i \in 1..Len(seq) |-> seq[Len(seq) + 1 - i]]

IsEntryOf(entry, uid) == entry.userId = <<"oid", uid>>

(* GET details (admin/user routes only): the document, its searches, counts. *)
Details(req) ==
  LET g == GateRun("details", req)
      mine == Reverse(SelectSeq(history, LAMBDA e : IsEntryOf(e, req.id)))
      payload == [user |-> selectMinusPassword(toObject(req.id, users[req.id])),
                  searchHistory |-> mine,
                  total |-> Len(mine),
                  allFeatures |-> ALL_FEATURES]
  IN
  /\ variant = "adminUser"
  /\ GateEffects(g, "details", req)
  /\ resp' = Response("details", req, g,
                      IF req.id \in DOMAIN users THEN Ok(200, <<payload>>)
                      ELSE Fail(404, notFoundError))
  /\ UNCHANGED <<variant, env, users, nextUid, sessions, nextSid, now, history, pending>>

(* A variant that takes every value for a feature name. *)
anyFeature(f) == TRUE

(* ALL_FEATURES.includes(f) *)
IsFeature(f) == \E i \in 1..Len(ALL_FEATURES) : ALL_FEATURES[i] = f

(* PUT features (admin/user routes only): findByIdAndUpdate with the known names. *)
Features(req) ==
  LET g == GateRun("features", req)
      isArray == req.body.features.t = "array"
      validFeatures == SelectSeq(req.body.features.v, IsFeature)
      found == req.id \in DOMAIN users
      updated == [users[req.id] EXCEPT !.features = validFeatures]
  IN
  /\ variant = "adminUser"
  /\ GateEffects(g, "features", req)
  /\ users' = IF g.v.pass /\ isArray /\ found
              THEN [users EXCEPT ![req.id] = updated] ELSE users
  /\ resp' = Response("features", req, g,
                      IF ~isArray THEN Fail(400, "Features must be an array")
                      ELSE IF ~found THEN Fail(404, notFoundError)
                      ELSE Ok(200, <<selectMinusPassword(toObject(req.id, updated))>>))
  /\ UNCHANGED <<variant, env, nextUid, sessions, nextSid, now, history, pending>>

(* ------------------------------- search ------------------------------- *)
(* The search routes that go through searchHandler, and the type they log. *)
HandlerRoutes ==
  IF variant = "adminUser" THEN {"search_email", "search_aadhar", "search_pan"}
  ELSE {"search_email", "search_id"}

searchTypeOf(route) ==
  CASE route = "search_email" -> "email"
    [] route = "search_aadhar" -> "aadhar"
    [] route = "search_pan" -> "pan"
    [] route = "search_id" -> "id"

searchTypeEnum ==
  IF variant = "adminUser"
  THEN {"mobile", "email", "aadhar", "pan", "alt", "vehicle_challan", "vehicle_info", "ip"}
  ELSE {"mobile", "email", "aadhar", "pan", "alt", "vehicle_challan", "vehicle_info"}

userTypeEnum == IF variant = "adminUser" THEN {"admin", "user"} ELSE {"owner", "admin"}

(* Array.isArray(data) ? data.length : (data ? 1 : 0) *)
resultCount(data) ==
  IF data.t = "array" THEN Len(data.v) ELSE IF data.t = "object" THEN 1 ELSE 0

historyEntry(user, type, query, count) ==
  [userId |-> user.id, userType |-> user.role, searchType |-> type, searchQuery |-> query,
   resultCount |-> count, timestamp |-> now]

(* SearchHistory.create validates the enums of the schema. *)
entryValid(entry) ==
  entry.searchType \in searchTypeEnum /\ entry.userType \in userTypeEnum

(* A variant of searchHandler that refuses a search type the caller's stored *)
(* feature list does not hold.                                              *)
searchHandlerFeatureChecked(route, req) ==
  LET user == sessionUser(req)
      entry == historyEntry(user, searchTypeOf(route), req.query,
                            resultCount(req.api.data))
      excluded == /\ variant = "adminUser"
                  /\ user.id[1] = "oid" /\ user.id[2] \in DOMAIN users
                  /\ \A i \in DOMAIN users[user.id[2]].features :
                       users[user.id[2]].features[i] # searchTypeOf(route)
  IN
  IF excluded
  THEN [h |-> Fail(403, "Feature not enabled"), stored |-> FALSE, entry |-> entry]
  ELSE IF req.query = <<>>
  THEN [h |-> Fail(400, "Query parameter required"), stored |-> FALSE, entry |-> entry]
  ELSE IF req.api.outcome = "timeout"
  THEN [h |-> Result(504, "Search request timed out", NoIdentity, 0, <<>>, 1),
        stored |-> FALSE, entry |-> entry]
  ELSE IF req.api.outcome # "ok" \/ ~entryValid(entry)
  THEN [h |-> Result(500, "Search failed", NoIdentity, 0, <<>>, 1),
        stored |-> FALSE, entry |-> entry]
  ELSE [h |-> Result(200, "", NoIdentity, 0, req.api.data.v, 1),
        stored |-> TRUE, entry |-> entry]

(* searchHandler: the result, and the history entry it stores (if stored). *)
searchHandler(route, req) ==
  LET entry == historyEntry(sessionUser(req), searchTypeOf(route), req.query,
                            resultCount(req.api.data))
  IN
  IF req.query = <<>>
  THEN [h |-> Fail(400, "Query parameter required"), stored |-> FALSE, entry |-> entry]
  ELSE IF req.api.outcome = "timeout"
  THEN [h |-> Result(504, "Search request timed out", NoIdentity, 0, <<>>, 1),
        stored |-> FALSE, entry |-> entry]
  ELSE IF req.api.outcome # "ok" \/ ~entryValid(entry)
  THEN [h |-> Result(500, "Search failed", NoIdentity, 0, <<>>, 1),
        stored |-> FALSE, entry |-> entry]
  ELSE [h |-> Result(200, "", NoIdentity, 0, req.api.data.v, 1),
        stored |-> TRUE, entry |-> entry]

(* GET /api/search/email, aadhar, pan (admin/user); email, id (owner/admin). *)
Search(route, req) ==
  LET g == GateRun(route, req)
      out == searchHandler(route, req)
      stored == g.v.pass /\ out.stored
  IN
  /\ route \in HandlerRoutes
  /\ stored => Len(history) < MaxHistory
  /\ GateEffects(g, route, req)
  /\ history' = IF stored THEN Append(history, out.entry) ELSE history
  /\ resp' = Response(route, req, g, out.h)
  /\ UNCHANGED <<variant, env, users, nextUid, sessions, nextSid, now, pending>>

(* ------------------------- requests and samples ----------------------- *)
(* process.env: the superuser's credentials (<<>> when unset) and whether VPNAPI_KEY is set. *)
EnvSet == [username |-> uAdm, password |-> pSecret, vpnapiKey |-> TRUE]
EnvUnset == [username |-> uAdm, password |-> <<>>, vpnapiKey |-> FALSE]

docAli(v) == Doc(v, uAli, bcryptHash(pAli), nAli, eAli, sActive, 0)
docBob(v) == Doc(v, uBob, bcryptHash(pBob), nBob, eBob, sInactive, 0)

JArr(items) == [t |-> "array", v |-> items]

Body(u, p, t) ==
  [username |-> u, password |-> p, loginType |-> t, name |-> JUndef, email |-> JUndef,
   status |-> JUndef, features |-> JUndef]

NoBody == Body(JUndef, JUndef, JUndef)

AccountBody(u, p, n, e) ==
  [username |-> u, password |-> p, loginType |-> JUndef, name |-> n, email |-> e,
   status |-> JUndef, features |-> JUndef]

FeaturesBody(f) ==
  [username |-> JUndef, password |-> JUndef, loginType |-> JUndef, name |-> JUndef,
   email |-> JUndef, status |-> JUndef, features |-> f]

(* What the external search API answers: outcome "ok", "notok" or "timeout", and the JSON. *)
Api(outcome, data) == [outcome |-> outcome, data |-> data]

NoApi == Api("none", [t |-> "null", v |-> <<>>])

apiTwoRows == Api("ok", JArr(<<[row |-> "r1"], [row |-> "r2"]>>))
apiTimeout == Api("timeout", [t |-> "null", v |-> <<>>])

(* The headers and addresses of a request, and what vpnapi.io would answer for it. *)
Profile(ua, origin, referer, socket, xff, vpnapi) ==
  [ua |-> ua, origin |-> origin, referer |-> referer, socket |-> socket, xff |-> xff,
   vpnapi |-> vpnapi]

pfBrowser == Profile(uaBrowser, originOk, <<>>, ipClean, <<>>, "clean")
pfOther == Profile(uaBrowser, originOk, <<>>, ipClean2, <<>>, "clean")
pfBurp == Profile(uaBurp, originOk, <<>>, ipClean, <<>>, "clean")
pfVpnRange == Profile(uaBrowser, originOk, <<>>, ipVpn, <<>>, "clean")
pfBurpVpn == Profile(uaBurp, originOk, <<>>, ipVpn, <<>>, "clean")
pfEvilVpn == Profile(uaBrowser, originEvil, <<>>, ipVpn, <<>>, "clean")

Req(pf, sid, body, id, query, api) ==
  [ua |-> pf.ua, origin |-> pf.origin, referer |-> pf.referer, socket |-> pf.socket,
   xff |-> pf.xff, vpnapi |-> pf.vpnapi, sid |-> sid, body |-> body, id |-> id,
   query |-> query, api |-> api]

LoginReq(pf, sid, body) == Req(pf, sid, body, 0, <<>>, NoApi)
PlainReq(pf, sid, id) == Req(pf, sid, NoBody, id, <<>>, NoApi)
BodyReq(pf, sid, id, body) == Req(pf, sid, body, id, <<>>, NoApi)
SearchReq(pf, sid, query, api) == Req(pf, sid, NoBody, 0, query, api)

NoReq == Req(Profile(<<>>, <<>>, <<>>, <<>>, <<>>, "clean"), 0, NoBody, 0, <<>>, NoApi)

NoResp ==
  [route |-> "none", req |-> NoReq, trace |-> <<>>, handler |-> FALSE, status |-> 0,
   error |-> "", code |-> "", user |-> NoIdentity, sid |-> 0, data |-> <<>>,
   outbound |-> 0, cors |-> FALSE, hit |-> 0, nth |-> 0]

bodySuper == Body(JStr(uAdm), JStr(pSecret), JStr(TypeSuper))
bodySuperPadded == Body(JStr(uAdmPadded), JStr(pSecretPadded), JStr(TypeSuper))
bodySuperWrongPw == Body(JStr(uAdm), JStr(pAli), JStr(TypeSuper))
bodyStored == Body(JStr(uAli), JStr(pAli), JStr(TypeStored))
bodyStoredWrongPw == Body(JStr(uAli), JStr(pBob), JStr(TypeStored))
bodyInactive == Body(JStr(uBob), JStr(pBob), JStr(TypeStored))
bodyUnknown == Body(JStr(uZed), JStr(pAli), JStr(TypeStored))

(* Login bodies: right and wrong credentials of either kind, credentials *)
(* sent under the other login type, padded values, non-string values.    *)
LoginBodies ==
  { bodySuper, bodySuperPadded, bodySuperWrongPw,
    Body(JStr(uAli), JStr(pAli), JStr(TypeSuper)),
    bodyStored, bodyStoredWrongPw, bodyInactive, bodyUnknown,
    Body(JStr(uAliPadded), JStr(pAli), JStr(TypeStored)),
    Body(JStr(uAdm), JStr(pSecret), JStr(TypeStored)),
    Body(JObj, JStr(pAli), JStr(TypeStored)),
    Body(JStr(uAli), JObj, JStr(TypeStored)),
    Body(JUndef, JStr(pAli), JStr(TypeStored)),
    Body(JStr(uAli), JStr(pAli), JStr(sZzz)) }

(* Session cookies a client can present: none (0), or an id the server issued. *)
IssuedSids == 0..(nextSid - 1)

(* ------------------------------ start-up ------------------------------ *)
(* The database outlives the process: at start-up the collection holds    *)
(* what earlier runs created; sessions, counters and caches are in memory *)
(* and start empty.                                                       *)
Start(envs) ==
  /\ variant \in {"adminUser", "ownerAdmin"}
  /\ env \in envs
  /\ users = <<docAli(variant), docBob(variant)>>
  /\ nextUid = 3
  /\ sessions = <<>>
  /\ nextSid = 1
  /\ authHits = <<>> /\ authSeen = <<>>
  /\ searchHits = <<>> /\ searchSeen = <<>>
  /\ ipCache = <<>>
  /\ now = 0
  /\ history = <<>>
  /\ pending = <<>>
  /\ resp = NoResp

(* ---------------- the login route (SpecLogin) ------------------------- *)
InitLogin == Start({EnvSet, EnvUnset})

LoginStep ==
  \E sid \in IssuedSids, body \in LoginBodies :
    /\ HitsOf(authSeen, reqIp(LoginReq(pfBrowser, sid, body))) < MaxAttempts
    /\ Login(LoginReq(pfBrowser, sid, body))

NextLogin == LoginStep

SpecLogin == InitLogin /\ [][NextLogin]_vars

(* ---------------- the login limiter (SpecLimit) ----------------------- *)
(* Requests of one address up to MaxOver past the limit, some of them     *)
(* stopped before the limiter; a second address; the window's end.        *)
Uncounted(seen, hits, ip) == HitsOf(seen, ip) - HitsOf(hits, ip)

LimitStep ==
  \E pf \in {pfBrowser, pfBurp, pfOther}, body \in {bodySuper, bodySuperWrongPw} :
    /\ HitsOf(authSeen, reqIp(LoginReq(pf, 0, body)))
         < (IF pf = pfOther THEN MaxAttempts ELSE AUTH_MAX + MaxOver)
    /\ pf = pfBurp => Uncounted(authSeen, authHits, pf.socket) < MaxOver - 1
    /\ Login(LoginReq(pf, 0, body))

NextLimit == LimitStep \/ AuthWindowReset

SpecLimit == Start({EnvSet}) /\ [][NextLimit]_vars

(* ---------------- the search limiter (SpecSearch) --------------------- *)
SearchLogin ==
  /\ sessions = <<>>
  /\ Login(LoginReq(pfBrowser, 0, bodyStored))

SearchSamples ==
  { SearchReq(pfBrowser, 0, qOne, apiTwoRows),
    SearchReq(pfBrowser, 1, qOne, apiTwoRows),
    SearchReq(pfBrowser, 1, <<>>, NoApi),
    SearchReq(pfBrowser, 1, qOne, apiTimeout) }

SearchStep ==
  \E route \in {"search_email", "search_aadhar", "search_id"}, req \in SearchSamples :
    /\ HitsOf(searchSeen, reqIp(req)) < SEARCH_MAX + MaxOver
    /\ ~requireAuth(req).pass => Uncounted(searchSeen, searchHits, reqIp(req)) < MaxOver - 1
    /\ Search(route, req)

NextSearch == SearchLogin \/ SearchStep \/ SearchWindowReset

SpecSearch == Start({EnvSet}) /\ [][NextSearch]_vars

(* ---------------- the middleware order (SpecGate) --------------------- *)
GateProfiles == {pfBrowser, pfVpnRange, pfBurpVpn, pfEvilVpn}

GateLogin ==
  \E pf \in GateProfiles, body \in {bodySuper, bodyStored} :
    /\ HitsOf(authSeen, reqIp(LoginReq(pf, 0, body))) < MaxAttempts - 1
    /\ Login(LoginReq(pf, 0, body))

GateStats == \E pf \in GateProfiles, sid \in IssuedSids : Stats(PlainReq(pf, sid, 0))

GateSearch ==
  \E pf \in GateProfiles, sid \in IssuedSids :
    /\ HitsOf(searchSeen, reqIp(SearchReq(pf, sid, <<>>, NoApi))) < MaxAttempts - 1
    /\ Search("search_email", SearchReq(pf, sid, <<>>, NoApi))

NextGate == GateLogin \/ GateStats \/ GateSearch

SpecGate == Start({EnvSet}) /\ [][NextGate]_vars

(* ---------------- the privileged routes (SpecPriv) -------------------- *)
bodyIncomplete == AccountBody(JStr(uCarl), JUndef, JUndef, JUndef)
bodyRenameToAli == AccountBody(JStr(uAli), JUndef, JUndef, JUndef)
bodyFeatures == FeaturesBody(JArr(<<"mobile", "bogus", "ip">>))

PrivLogin ==
  \E body \in {bodySuper, bodyStored} :
    /\ HitsOf(authSeen, reqIp(LoginReq(pfBrowser, 0, body))) < MaxAttempts
    /\ Login(LoginReq(pfBrowser, 0, body))

PrivStats == \E sid \in IssuedSids : Stats(PlainReq(pfBrowser, sid, 0))
PrivList == \E sid \in IssuedSids : List(PlainReq(pfBrowser, sid, 0))
PrivCreate == \E sid \in IssuedSids : CreateLookup(BodyReq(pfBrowser, sid, 0, bodyIncomplete))
PrivUpdate == \E sid \in IssuedSids : UpdateLookup(BodyReq(pfBrowser, sid, 2, bodyRenameToAli))
PrivDelete == \E sid \in IssuedSids : Delete(PlainReq(pfBrowser, sid, 2))
PrivDetails == \E sid \in IssuedSids : Details(PlainReq(pfBrowser, sid, 1))
PrivFeatures == \E sid \in IssuedSids : Features(BodyReq(pfBrowser, sid, 1, bodyFeatures))

NextPriv ==
  \/ PrivLogin \/ PrivStats \/ PrivList \/ PrivCreate \/ PrivUpdate \/ PrivDelete
  \/ PrivDetails \/ PrivFeatures

SpecPriv == Start({EnvSet}) /\ [][NextPriv]_vars

(* ---------------- the account collection (SpecStore) ------------------ *)
(* One privileged session; creates and updates, suspended between lookup  *)
(* and save, interleave with each other and with the reads.               *)
bodyCarl == AccountBody(JStr(uCarl), JStr(pCarl), JStr(nCarl), JStr(eCarl))
bodyAliAgain == AccountBody(JStr(uAli), JStr(pCarl), JStr(nCarl), JStr(eCarl))
bodyRenameToCarl == AccountBody(JStr(uCarl), JUndef, JUndef, JUndef)
bodyEmailOfAli == AccountBody(JUndef, JUndef, JUndef, JStr(eAli))
bodyNewName == AccountBody(JUndef, JStr(pCarl), JStr(nCarl), JUndef)

StoreLogin ==
  /\ sessions = <<>>
  /\ Login(LoginReq(pfBrowser, 0, bodySuper))

StoreList == \E sid \in DOMAIN sessions : List(PlainReq(pfBrowser, sid, 0))
StoreDetails == \E sid \in DOMAIN sessions : Details(PlainReq(pfBrowser, sid, 1))
StoreFeatures ==
  \E sid \in DOMAIN sessions : Features(BodyReq(pfBrowser, sid, 1, bodyFeatures))
StoreCreate ==
  \E sid \in DOMAIN sessions, body \in {bodyCarl, bodyAliAgain} :
    CreateLookup(BodyReq(pfBrowser, sid, 0, body))
StoreUpdate ==
  \E sid \in DOMAIN sessions :
    \/ UpdateLookup(BodyReq(pfBrowser, sid, 2, bodyRenameToCarl))
    \/ UpdateLookup(BodyReq(pfBrowser, sid, 2, bodyEmailOfAli))
    \/ UpdateLookup(BodyReq(pfBrowser, sid, 1, bodyNewName))
StoreCreateSave == \E i \in 1..MaxPending : CreateSave(i)
StoreUpdateSave == \E i \in 1..MaxPending : UpdateSave(i)

NextStore ==
  \/ StoreLogin \/ StoreList \/ StoreDetails \/ StoreFeatures \/ StoreCreate
  \/ StoreUpdate \/ StoreCreateSave \/ StoreUpdateSave

SpecStore == Start({EnvSet}) /\ [][NextStore]_vars

(* ============================== properties ============================ *)
IsPrefix(s, t) == Len(s) <= Len(t) /\ \A i \in 1..Len(s) : s[i] = t[i]

LastOf(s) == s[Len(s)]

Answered == resp.route # "none"


roleCheck == IF variant = "adminUser" THEN "requireAdmin" ELSE "requireOwner"

(* ------------------------------- C1 ----------------------------------- *)
(* The position of each check in the order the specification states:      *)
(* headers, interception, origin, VPN, authentication, role, rate limit.  *)
StatedRank(name) ==
  CASE name = "securityHeaders" -> 1
    [] name = "preventInterception" -> 2
    [] name = "apiProtection" -> 3
    [] name = "detectVPN" -> 4
    [] name = "requireAuth" -> 5
    [] name \in {"requireAdmin", "requireOwner"} -> 6
    [] name \in {"authLimiter", "searchLimiter"} -> 7

(* The order the checks are registered in, per class of route. *)
RegisteredOrder(route) ==
  (IF variant = "adminUser"
   THEN <<"securityHeaders", "preventInterception", "apiProtection">>
   ELSE <<"securityHeaders", "preventInterception">>)
  \o (IF route = "login" THEN <<"authLimiter", "detectVPN">>
      ELSE IF route \in PrivilegedRoutes THEN <<roleCheck, "detectVPN">>
      ELSE IF route \in SearchRoutes THEN <<"requireAuth", "searchLimiter", "detectVPN">>
      ELSE <<>>)

GatedRoutes == {"login"} \cup PrivilegedRoutes \cup SearchRoutes

AccountRoutes == {"create", "update", "list", "details", "features"}

NoPasswordField(obj) == "password" \notin DOMAIN obj

(* C2: no response of the account list, create, update, details and       *)
(* feature-update routes carries a password field of any account.         *)
C2_NoPasswordInResponses ==
  resp.route \in AccountRoutes =>
    \A i \in DOMAIN resp.data :
      /\ NoPasswordField(resp.data[i])
      /\ resp.route = "details" => NoPasswordField(resp.data[i].user)

(* A created account is returned, with its other fields. *)
C2_Witness ==
  /\ resp.route = "create" /\ resp.status = 201
  /\ Len(resp.data) = 1
  /\ resp.data[1].username = uCarl
  /\ \E u \in DOMAIN users : users[u].username = uCarl /\ users[u].password = bcryptHash(pCarl)

(* ------------------------------- C3 ----------------------------------- *)
WellFormedLogin(r) ==
  /\ r.route = "login" /\ r.handler
  /\ IsString(r.req.body.username) /\ IsString(r.req.body.password)
  /\ r.req.body.loginType \in {JStr(TypeSuper), JStr(TypeStored)}
  /\ r.status # 400

FailedLogin(r) == WellFormedLogin(r) /\ r.status # 200

(* C3 as stated: two failing well-formed logins of the same login type    *)
(* that differ only in the factor that fails get the same 401 response.   *)
C3_UniformFailure ==
  [][FailedLogin(resp) /\ FailedLogin(resp')
       /\ resp.req.body.loginType = resp'.req.body.loginType
     => resp'.status = 401 /\ resp'.status = resp.status /\ resp'.error = resp.error]_vars

(* ------------------------------- C4 ----------------------------------- *)
(* C4 as stated: after a successful login the session id differs from the *)
(* one the request presented, and the presented one is no longer live.    *)
C4_TokenRotated ==
  resp.route = "login" /\ resp.status = 200 =>
    /\ resp.sid # resp.req.sid
    /\ resp.req.sid \notin DOMAIN sessions

(* ------------------------------- C5 ----------------------------------- *)
authLimitMessage == "Too many login attempts. Please try again later."

(* C5 as stated: the 11th and every later login request of one address in *)
(* one window gets the rate-limit response.                               *)
C5_Stated ==
  resp.route = "login" /\ resp.nth > AUTH_MAX =>
    resp.status = 429 /\ resp.error = authLimitMessage

(* C5, corrected: among the login requests of one address in one window   *)
(* that reach the limiter (requests the header, interception and origin   *)
(* checks reject are not counted), the handler runs for at most the first *)
(* 10; the 11th and every later one gets the rate-limit response whatever *)
(* its credentials, and creates no session.                               *)
C5_CountedLogins ==
  /\ [](resp.route = "login" =>
          /\ resp.handler => resp.hit \in 1..AUTH_MAX
          /\ resp.hit > AUTH_MAX =>
               /\ resp.status = 429 /\ resp.error = authLimitMessage
               /\ ~resp.handler /\ resp.sid = 0 /\ resp.user = NoIdentity
          /\ resp.hit <= resp.nth)
  /\ [][resp'.route = "login" /\ resp'.hit > AUTH_MAX
          => sessions' = sessions /\ nextSid' = nextSid /\ users' = users]_vars

(* The 11th counted login, with the right superuser credentials, refused. *)
C5_Witness ==
  /\ resp.route = "login" /\ resp.hit = AUTH_MAX + 1
  /\ resp.req.body = bodySuper
  /\ resp.status = 429

(* ------------------------------- C6 ----------------------------------- *)
searchLimitMessage == "Too many requests. Please slow down."

(* C6 as stated: the 31st and every later search request of one address   *)
(* in one window gets the rate-limit response.                            *)
C6_Stated ==
  resp.route \in SearchRoutes /\ resp.nth > SEARCH_MAX =>
    resp.status = 429 /\ resp.error = searchLimitMessage

(* C6, corrected: among the search requests of one address in one window, *)
(* over all search routes together, that reach the limiter (requests      *)
(* without a session are turned away before it and not counted), at most  *)
(* the first 30 reach a handler; the 31st and later get the rate-limit    *)
(* response, issue no outbound call and append no history entry.          *)
C6_CountedSearches ==
  /\ [](resp.route \in SearchRoutes =>
          /\ resp.handler => resp.hit \in 1..SEARCH_MAX
          /\ resp.hit > SEARCH_MAX =>
               /\ resp.status = 429 /\ resp.error = searchLimitMessage
               /\ ~resp.handler /\ resp.outbound = 0
          /\ resp.hit <= resp.nth)
  /\ [][resp'.route \in SearchRoutes /\ resp'.hit > SEARCH_MAX
          => history' = history]_vars

(* The 31st counted search, on either route, by a logged-in client. *)
C6_Witness ==
  /\ resp.route \in {"search_aadhar", "search_id"} /\ resp.hit = SEARCH_MAX + 1
  /\ resp.req.sid \in DOMAIN sessions
  /\ resp.req.query = qOne /\ resp.req.api = apiTwoRows
  /\ resp.status = 429

(* ------------------------------- C7 ----------------------------------- *)
(* C7: on every privileged route a request without a session identity     *)
(* gets 401 and one whose session role is not the privileged role gets    *)
(* 403 (when the checks before the role check let it through); in both    *)
(* cases the handler does not run: nothing of the store is returned, and  *)
(* the accounts, the suspended writes and the history stay as they were.  *)
C7_PrivilegedRoutesGuarded ==
  /\ [](resp.route \in PrivilegedRoutes /\ sessionUser(resp.req).role # PrivRole =>
          /\ ~resp.handler /\ resp.data = <<>>
          /\ LastOf(resp.trace) = roleCheck =>
               resp.status = (IF sessionUser(resp.req) = NoIdentity THEN 401 ELSE 403))
  /\ [][resp'.route \in PrivilegedRoutes /\ ~resp'.handler
          => users' = users /\ nextUid' = nextUid /\ pending' = pending
             /\ history' = history]_vars

(* A stored account's session asks to delete an account that exists. *)
C7_Witness ==
  /\ resp.route = "delete" /\ resp.status = 403
  /\ sessionUser(resp.req).role = StoredRole
  /\ resp.req.id \in DOMAIN users
  /\ \E s \in DOMAIN sessions : sessions[s].role = PrivRole

(* ------------------------------- C8 ----------------------------------- *)
StoredLoginOk(r) ==
  r.route = "login" /\ r.status = 200 /\ r.user.role = StoredRole

(* C8 as stated: a stored-account login creates a session identity only   *)
(* for an active account with exactly the username sent and a password    *)
(* that verifies; a login for an inactive account gets 401, no session,   *)
(* and leaves lastLogin as it was.                                        *)
C8_Stated ==
  /\ StoredLoginOk(resp) =>
       /\ IsString(resp.req.body.username) /\ IsString(resp.req.body.password)
       /\ \E u \in DOMAIN users :
            /\ users[u].username = resp.req.body.username.v
            /\ users[u].status = sActive
            /\ bcryptCompare(resp.req.body.password.v, users[u].password)
            /\ resp.user.id = <<"oid", u>>
  /\ \A u \in DOMAIN users : users[u].status = sInactive => users[u].lastLogin = NoDate
  /\ resp.route = "login" /\ resp.handler /\ resp.req.body = bodyInactive =>
       resp.status = 401 /\ resp.sid = 0

(* ------------------------------- C9 ----------------------------------- *)
PrivLoginOk(r) == r.route = "login" /\ r.status = 200 /\ r.user.role = PrivRole

(* C9 as stated: a privileged session comes only from a login of the      *)
(* privileged type whose username and password equal the non-empty        *)
(* environment values exactly.                                            *)
C9_Stated ==
  PrivLoginOk(resp) =>
    /\ resp.req.body.loginType = JStr(TypeSuper)
    /\ resp.req.body.username = JStr(env.username)
    /\ resp.req.body.password = JStr(env.password)

(* What the login handler compares: the body's value after trim and       *)
(* truncation in the admin/user variant, the value as sent otherwise.     *)
Compared(x) == IF variant = "adminUser" THEN sanitizeString(x) ELSE StrOf(x)

(* C9, corrected: a privileged session comes only from a login whose      *)
(* loginType is the privileged one and whose username and password equal  *)
(* the non-empty environment values, exactly in the owner/admin variant   *)
(* and after trimming and truncating to 500 characters in the admin/user  *)
(* variant; its id is the sentinel; with an environment value unset no    *)
(* session is privileged; a stored-account login yields neither the       *)
(* privileged role nor the sentinel id.                                   *)
C9_SuperuserOnly ==
  /\ PrivLoginOk(resp) =>
       /\ IsString(resp.req.body.username) /\ IsString(resp.req.body.password)
       /\ IsString(resp.req.body.loginType)
       /\ Compared(resp.req.body.loginType) = TypeSuper
       /\ Compared(resp.req.body.username) = env.username
       /\ Compared(resp.req.body.password) = env.password
       /\ env.username # <<>> /\ env.password # <<>>
       /\ resp.user.id = SentinelId
  /\ \A s \in DOMAIN sessions :
       /\ sessions[s].role = PrivRole =>
            env.username # <<>> /\ env.password # <<>> /\ sessions[s].id = SentinelId
       /\ sessions[s].role # PrivRole => sessions[s].id # SentinelId
  /\ resp.route = "login" /\ resp.status = 200
       /\ Compared(resp.req.body.loginType) = TypeStored
     => resp.user.role = StoredRole /\ resp.user.id # SentinelId

(* The admin/user login accepts the superuser's values with blanks around them. *)
C9_Witness ==
  /\ PrivLoginOk(resp)
  /\ resp.req.body = bodySuperPadded
  /\ resp.req.sid \in {0, 1}
  /\ \E s \in DOMAIN sessions : sessions[s] = SuperIdentity

(* ------------------------------- C10 ---------------------------------- *)
Unique ==
  \A u, w \in DOMAIN users :
    u # w => users[u].username # users[w].username /\ users[u].email # users[w].email

(* The username or email of a create request is held by a stored account. *)
TakenIn(store, body) ==
  \E u \in DOMAIN store :
    \/ store[u].username = Compared(body.username)
    \/ store[u].email = Compared(body.email)

CreateAnswered == resp' # resp /\ resp'.route = "create" /\ resp'.handler

(* C10 as stated: usernames and emails stay unique, and a create whose    *)
(* username or email is taken when it would be stored gets 400 and stores *)
(* nothing.                                                               *)
C10_Stated ==
  /\ []Unique
  /\ [][CreateAnswered /\ TakenIn(users, resp'.req.body)
          => resp'.status = 400 /\ users' = users]_vars

(* C10, corrected: usernames and emails stay unique under every           *)
(* interleaving of creates and updates; a create whose username or email  *)
(* is taken when the handler looks it up gets 400, one whose username or  *)
(* email is taken between its lookup and its save gets 500; both store    *)
(* nothing.                                                               *)
C10_UniqueAccounts ==
  /\ []Unique
  /\ [][CreateAnswered /\ TakenIn(users, resp'.req.body)
          => /\ users' = users /\ nextUid' = nextUid
             /\ pending' = pending => resp'.status = 400
             /\ pending' # pending => resp'.status = 500]_vars

(* The loser of two creates of one username: refused at its save. *)
C10_Witness ==
  /\ resp.route = "create" /\ resp.status = 500
  /\ resp.req.body = bodyCarl
  /\ \E u \in DOMAIN users : users[u].username = uCarl /\ users[u].email = eCarl

(* ------------------------------- C11 ---------------------------------- *)
NoLookup == [made |-> FALSE, filter |-> JUndef]
Lookup(x) == [made |-> TRUE, filter |-> x]

(* The username filter the login handler hands to findOne, when it gets   *)
(* that far: String(username) of the sanitised value in the admin/user    *)
(* routes, req.body.username as received in the owner/admin routes.       *)
loginLookup(body) ==
  IF variant = "adminUser"
  THEN IF \/ sanitizeString(body.username) = <<>> \/ sanitizeString(body.password) = <<>>
          \/ sanitizeString(body.loginType) = <<>>
       THEN NoLookup
       ELSE IF ~IsString(body.username) \/ ~IsString(body.password) THEN NoLookup
       ELSE IF sanitizeString(body.loginType) = sAdmin THEN NoLookup
       ELSE IF sanitizeString(body.loginType) = sUser
            THEN Lookup(JStr(sanitizeString(body.username)))
       ELSE NoLookup
  ELSE IF ~Truthy(body.username) \/ ~Truthy(body.password) \/ ~Truthy(body.loginType)
       THEN NoLookup
       ELSE IF body.loginType = JStr(sOwner) THEN NoLookup
       ELSE IF body.loginType = JStr(sAdmin) THEN Lookup(body.username)
       ELSE NoLookup

NonStringCredentials(body) == ~IsString(body.username) \/ ~IsString(body.password)

(* C11 as stated: a login whose username or password is not a string is   *)
(* rejected (400) before any account lookup, and the value never becomes  *)
(* the filter of the account query.                                       *)
C11_Stated ==
  resp.route = "login" /\ resp.handler /\ NonStringCredentials(resp.req.body) =>
    /\ resp.status = 400
    /\ ~loginLookup(resp.req.body).made


(* ===================== mobile search (SpecMobile) ===================== *)
(* A record of an upstream answer: its members in the order of the JSON   *)
(* text, each a <<key, value>> pair.                                      *)
recA == << <<"mobile", "m1">>, <<"name", "n1">> >>
recAReordered == << <<"name", "n1">>, <<"mobile", "m1">> >>
recB == << <<"mobile", "m2">>, <<"name", "n2">> >>
recC == << <<"mobile", "m3">>, <<"name", "n3">> >>

RECURSIVE stringifyMembers(_)
stringifyMembers(item) ==
  IF item = <<>> THEN <<>>
  ELSE <<item[1][1], ":", item[1][2]>>
       \o (IF Len(item) > 1 THEN <<",">> ELSE <<>>)
       \o stringifyMembers(Tail(item))

(* JSON.stringify(item): the members in insertion order between braces. *)
JSONstringify(item) == <<"{">> \o stringifyMembers(item) \o <<"}">>

(* The mobile search has two upstream answers: the mobile index and the alt index. *)
MobileApi(mobileRes, altRes) ==
  [outcome |-> mobileRes.outcome, data |-> mobileRes.data, alt |-> altRes]

(* What one settled fetch contributes to allResults. *)
settledResults(res) ==
  IF res.outcome # "ok" THEN <<>>
  ELSE IF res.data.t = "array" THEN res.data.v
  ELSE IF res.data.t = "object" THEN <<res.data.v>>
  ELSE <<>>

(* arr.findIndex((i) => JSON.stringify(i) === key) *)
findIndex(arr, key) == Least({i \in DOMAIN arr : JSONstringify(arr[i]) = key})

(* allResults.filter((item, idx, arr) => arr.findIndex(...) === idx) *)
uniqueResults(allResults) ==
  LET RECURSIVE from(_)
      from(idx) ==
        IF idx > Len(allResults) THEN <<>>
        ELSE (IF findIndex(allResults, JSONstringify(allResults[idx])) = idx
              THEN <<allResults[idx]>> ELSE <<>>) \o from(idx + 1)
  IN  from(1)

(* The mobile route's handler: the result, and the history entry it stores. *)
mobileSearch(req) ==
  LET allResults == settledResults(req.api) \o settledResults(req.api.alt)
      unique == uniqueResults(allResults)
      entry == historyEntry(sessionUser(req), "mobile", req.query, Len(unique))
  IN
  IF req.query = <<>>
  THEN [h |-> Fail(400, "Query parameter required"), stored |-> FALSE, entry |-> entry]
  ELSE IF ~entryValid(entry)
  THEN [h |-> Result(500, "Search failed", NoIdentity, 0, <<>>, 2),
        stored |-> FALSE, entry |-> entry]
  ELSE [h |-> Result(200, "", NoIdentity, 0, unique, 2), stored |-> TRUE, entry |-> entry]

(* GET /api/search/mobile *)
SearchMobile(req) ==
  LET g == GateRun("search_mobile", req)
      out == mobileSearch(req)
      stored == g.v.pass /\ out.stored
  IN
  /\ stored => Len(history) < MaxHistory
  /\ GateEffects(g, "search_mobile", req)
  /\ history' = IF stored THEN Append(history, out.entry) ELSE history
  /\ resp' = Response("search_mobile", req, g, out.h)
  /\ UNCHANGED <<variant, env, users, nextUid, sessions, nextSid, now, pending>>

apiNull == [t |-> "null", v |-> <<>>]
JRec(item) == [t |-> "object", v |-> item]

(* Answers of the mobile index, and of the alt index. *)
MobileAnswers ==
  { Api("ok", JArr(<<recA, recB>>)), Api("ok", JArr(<<recA, recA>>)),
    Api("ok", JRec(recA)), Api("ok", JArr(<<>>)), Api("notok", apiNull),
    Api("timeout", apiNull) }

AltAnswers ==
  { Api("ok", JArr(<<recAReordered, recC>>)), Api("ok", JRec(recA)),
    Api("timeout", apiNull) }

MobileLogin ==
  /\ sessions = <<>>
  /\ \E body \in {bodyStored, bodySuper} : Login(LoginReq(pfBrowser, 0, body))

MobileStep ==
  \E sid \in IssuedSids, query \in {qOne, <<>>}, m \in MobileAnswers, a \in AltAnswers :
    /\ HitsOf(searchSeen, pfBrowser.socket) < MaxAttempts
    /\ query = <<>> => m = a
    /\ SearchMobile(SearchReq(pfBrowser, sid, query, MobileApi(m, a)))

NextMobile == MobileLogin \/ MobileStep

SpecMobile == Start({EnvSet}) /\ [][NextMobile]_vars

(* Two records are structurally equal when they have the same members. *)
StructEq(a, b) == {a[i] : i \in DOMAIN a} = {b[i] : i \in DOMAIN b}

MobileAnswered ==
  /\ resp.route = "search_mobile" /\ resp.handler /\ resp.status = 200
  /\ resp.req.api.outcome = "ok" /\ resp.req.api.alt.outcome = "ok"

(* C12: the list a mobile search returns holds every distinct record of   *)
(* the two upstream answers exactly once, records being the same iff they *)
(* are structurally equal, and nothing else; the recorded result count is *)
(* the length of that list.                                               *)
C12_Stated ==
  MobileAnswered =>
    LET all == settledResults(resp.req.api) \o settledResults(resp.req.api.alt)
    IN  /\ \A i \in DOMAIN all :
             Cardinality({j \in DOMAIN resp.data : StructEq(resp.data[j], all[i])}) = 1
        /\ \A j \in DOMAIN resp.data : \E i \in DOMAIN all : resp.data[j] = all[i]
        /\ history # <<>> /\ LastOf(history).resultCount = Len(resp.data)


(* ==================== vehicle searches (SpecVehicle) ================== *)
(* A top-level member value of the vehicle API's answer: an object with   *)
(* its embedded status and the number of rows under data.data, a string,  *)
(* or undefined when the member is absent.                                *)
VObj(status, n) == [t |-> "object", status |-> status, n |-> n, s |-> ""]
VStr(s) == [t |-> "string", status |-> 0, n |-> 0, s |-> s]
VUndef == [t |-> "undefined", status |-> 0, n |-> 0, s |-> ""]

(* rawData.key *)
Member(rawData, key) ==
  IF \E i \in DOMAIN rawData : rawData[i][1] = key
  THEN rawData[CHOOSE i \in DOMAIN rawData : rawData[i][1] = key][2]
  ELSE VUndef

VTruthy(x) == x.t = "object" \/ (x.t = "string" /\ x.s # "")

(* if (rawData.key && rawData.key.status === 200) filteredData.key = rawData.key *)
copyIfOk(rawData, key) ==
  LET x == Member(rawData, key)
  IN  IF VTruthy(x) /\ x.t = "object" /\ x.status = 200 THEN << <<key, x>> >> ELSE <<>>

(* if (rawData.vehicle_number) filteredData.vehicle_number = rawData.vehicle_number *)
copyNumber(rawData) ==
  LET x == Member(rawData, "vehicle_number")
  IN  IF VTruthy(x) THEN << <<"vehicle_number", x>> >> ELSE <<>>

(* A variant that passes the upstream answer through. *)
unfiltered(rawData) == rawData

filteredChallan(rawData) == copyIfOk(rawData, "challan") \o copyNumber(rawData)

filteredInfo(rawData) ==
  copyIfOk(rawData, "vehicle") \o copyIfOk(rawData, "puc") \o copyNumber(rawData)

vehicleProblem == "There are some problem please contact developer"

(* res.status(200).json({ success: true, data: null, message }): data null is <<>>, *)
(* the message is carried in the error field.                                       *)
vehicleNull(outb) == Result(200, vehicleProblem, NoIdentity, 0, <<>>, outb)

(* The two vehicle handlers: kind is "challan" or "vehicle". *)
vehicleSearch(kind, req) ==
  LET vehicleNumber == sanitizeString(JStr(req.query))
      rawData == req.api.data.v
      filteredData == IF kind = "challan" THEN filteredChallan(rawData)
                      ELSE filteredInfo(rawData)
      count == IF kind = "challan" THEN Member(filteredData, "challan").n ELSE 1
      entry == historyEntry(sessionUser(req),
                            IF kind = "challan" THEN "vehicle_challan" ELSE "vehicle_info",
                            vehicleNumber, count)
      none == [h |-> vehicleNull(1), stored |-> FALSE, entry |-> entry]
  IN
  IF vehicleNumber = <<>>
  THEN [h |-> Fail(400, vehicleProblem), stored |-> FALSE, entry |-> entry]
  ELSE IF req.api.outcome # "ok" THEN none
  ELSE IF req.api.data.t # "object" THEN none
  ELSE IF ~VTruthy(Member(filteredData, kind)) THEN none
  ELSE IF ~entryValid(entry) THEN none
  ELSE [h |-> Result(200, "", NoIdentity, 0, filteredData, 1), stored |-> TRUE,
        entry |-> entry]

SearchVehicle(route, kind, req) ==
  LET g == GateRun(route, req)
      out == vehicleSearch(kind, req)
      stored == g.v.pass /\ out.stored
  IN
  /\ variant = "adminUser"
  /\ stored => Len(history) < MaxHistory
  /\ GateEffects(g, route, req)
  /\ history' = IF stored THEN Append(history, out.entry) ELSE history
  /\ resp' = Response(route, req, g, out.h)
  /\ UNCHANGED <<variant, env, users, nextUid, sessions, nextSid, now, pending>>

(* GET /api/search/vehicle-challan *)
SearchVehicleChallan(req) == SearchVehicle("search_vehicle-challan", "challan", req)

(* GET /api/search/vehicle-info *)
SearchVehicleInfo(req) == SearchVehicle("search_vehicle-info", "vehicle", req)

qPlate == <<"K","A","0","1">>
qPlatePadded == <<" ","K","A","0","1">>

(* Answers of the vehicle API: the data members and the credits around them. *)
rawCredits == << <<"metadata", VObj(200, 0)>>, <<"api_by", VStr("someone")>>,
                 <<"timestamp", VStr("t0")>> >>
rawAllOk == << <<"challan", VObj(200, 2)>>, <<"vehicle", VObj(200, 0)>>,
               <<"puc", VObj(200, 0)>>, <<"vehicle_number", VStr("KA01")>> >> \o rawCredits
rawPucFailed == << <<"vehicle", VObj(200, 0)>>, <<"puc", VObj(404, 0)>>,
                   <<"challan", VObj(200, 0)>>,
                   <<"vehicle_number", VStr("KA01")>> >> \o rawCredits
rawAllFailed == << <<"challan", VObj(404, 0)>>, <<"vehicle", VObj(500, 0)>>,
                   <<"puc", VObj(200, 0)>>, <<"vehicle_number", VStr("KA01")>> >> \o rawCredits
rawNoNumber == << <<"api_by", VStr("someone")>>, <<"challan", VObj(200, 1)>>,
                  <<"vehicle", VObj(200, 0)>>, <<"vehicle_number", VStr("")>> >>
rawStrings == << <<"challan", VStr("none")>>, <<"vehicle", VStr("none")>> >>

VehicleAnswers ==
  { Api("ok", JRec(rawAllOk)), Api("ok", JRec(rawPucFailed)), Api("ok", JRec(rawAllFailed)),
    Api("ok", JRec(rawNoNumber)), Api("ok", JRec(rawStrings)), Api("ok", apiNull),
    Api("notok", apiNull), Api("timeout", apiNull) }

VehicleLogin ==
  /\ sessions = <<>>
  /\ \E body \in {bodyStored, bodySuper} : Login(LoginReq(pfBrowser, 0, body))

VehicleRequests ==
  { SearchReq(pfBrowser, sid, qPlate, api) : sid \in IssuedSids, api \in VehicleAnswers }
    \cup { SearchReq(pfBrowser, 1, q, Api("ok", JRec(rawAllOk))) : q \in {<<>>, qPlatePadded} }

VehicleChallanStep ==
  \E req \in VehicleRequests :
    /\ HitsOf(searchSeen, reqIp(req)) < MaxAttempts
    /\ SearchVehicleChallan(req)

VehicleInfoStep ==
  \E req \in VehicleRequests :
    /\ HitsOf(searchSeen, reqIp(req)) < MaxAttempts
    /\ SearchVehicleInfo(req)

NextVehicle == VehicleLogin \/ VehicleChallanStep \/ VehicleInfoStep

SpecVehicle == Start({EnvSet}) /\ [][NextVehicle]_vars

Keys(obj) == {obj[i][1] : i \in DOMAIN obj}

VehicleRoutes == {"search_vehicle-challan", "search_vehicle-info"}

AllowedKeys(route) ==
  IF route = "search_vehicle-challan" THEN {"challan", "vehicle_number"}
  ELSE {"vehicle", "puc", "vehicle_number"}

(* C13: the data of a vehicle-challan answer has no top-level key outside *)
(* {challan, vehicle_number}, that of a vehicle-info answer none outside  *)
(* {vehicle, puc, vehicle_number}; challan, vehicle and puc are there     *)
(* only with embedded status 200; no other upstream field is returned.    *)
C13_FilteredVehicleData ==
  resp.route \in VehicleRoutes =>
    /\ Keys(resp.data) \subseteq AllowedKeys(resp.route)
    /\ \A i \in DOMAIN resp.data :
         /\ resp.data[i][1] \in {"challan", "vehicle", "puc"} => resp.data[i][2].status = 200
         /\ resp.data[i][2] = Member(resp.req.api.data.v, resp.data[i][1])

(* A vehicle-info answer that kept vehicle and vehicle_number and dropped *)
(* the failed puc block and the credits of the upstream answer.           *)
C13_Witness ==
  /\ resp.route = "search_vehicle-info" /\ resp.handler /\ resp.status = 200
  /\ resp.req.api.data.v = rawPucFailed
  /\ Keys(resp.data) = {"vehicle", "vehicle_number"}
  /\ {"puc", "metadata", "api_by", "timestamp"} \subseteq Keys(resp.req.api.data.v)


(* ======================== IP search (SpecIp) ========================== *)
ipGoogle == <<"8",".","8",".","8",".","8">>
ipPaddedGoogle == <<" ","8",".","8",".","8",".","8">>
ipOctets999 == <<"9","9","9",".","9","9","9",".","9","9","9",".","9","9","9">>
sNotAnIp == <<"n","o","t","-","a","n","-","i","p">>
ip6Loopback == <<":",":","1">>
ip6Compressed == <<"2","0","0","1",":","d","b","8",":",":","1">>
ip6TripleColon == <<"1",":",":",":","1">>
ip6Full == <<"1",":","2",":","3",":","4",":","5",":","6",":","7",":","8">>

(* s.split(sep): the pieces of s between the occurrences of the character sep. *)
RECURSIVE Split(_, _)
Split(s, sep) ==
  IF \A i \in DOMAIN s : s[i] # sep THEN <<s>>
  ELSE LET at == Least({i \in DOMAIN s : s[i] = sep})
       IN  <<SubSeq(s, 1, at - 1)>> \o Split(SubSeq(s, at + 1, Len(s)), sep)

DigitChars == {Digits[i] : i \in DOMAIN Digits}
HexChars == DigitChars \cup {"a","b","c","d","e","f","A","B","C","D","E","F"}

(* \d{1,3} and [0-9a-fA-F]{1,4} *)
isDigits13(g) == Len(g) \in 1..3 /\ \A i \in DOMAIN g : g[i] \in DigitChars
isHex14(g) == Len(g) \in 1..4 /\ \A i \in DOMAIN g : g[i] \in HexChars

(* /^(\d{1,3}\.){3}\d{1,3}$/ *)
ipv4Regex(s) ==
  LET parts == Split(s, ".")
  IN  Len(parts) = 4 /\ \A i \in DOMAIN parts : isDigits13(parts[i])

(* /^([0-9a-fA-F]{1,4}:){7}[0-9a-fA-F]{1,4}$|^::$|                          *)
(*  ^([0-9a-fA-F]{1,4}:){0,6}::([0-9a-fA-F]{1,4}:){0,6}[0-9a-fA-F]{1,4}$/   *)
(* In the third alternative the first group ends in ":" and "::" follows  *)
(* it, so between the colons lie k groups, two empty pieces, m groups and *)
(* a last group (k, m in 0..6).                                           *)
ipv6Regex(s) ==
  LET parts == Split(s, ":")
  IN  \/ Len(parts) = 8 /\ \A i \in DOMAIN parts : isHex14(parts[i])
      \/ s = <<":", ":">>
      \/ \E k \in 0..6 :
           /\ Len(parts) >= k + 3 /\ Len(parts) <= k + 2 + 6 + 1
           /\ parts[k + 1] = <<>> /\ parts[k + 2] = <<>>
           /\ \A i \in DOMAIN parts : i \notin {k + 1, k + 2} => isHex14(parts[i])

(* The member of a flat JSON object (pairs of strings), "" when absent. *)
StrMember(obj, key) ==
  IF \E i \in DOMAIN obj : obj[i][1] = key
  THEN obj[CHOOSE i \in DOMAIN obj : obj[i][1] = key][2]
  ELSE ""

(* The ip route's handler: the result, and the history entry it stores. *)
ipSearch(req) ==
  LET ipAddress == sanitizeString(JStr(req.query))
      data == req.api.data.v
      entry == historyEntry(sessionUser(req), "ip", ipAddress,
                            IF StrMember(data, "status") = "success" THEN 1 ELSE 0)
      failed == [h |-> Result(500, "IP lookup failed", NoIdentity, 0, <<>>, 1),
                 stored |-> FALSE, entry |-> entry]
  IN
  IF ipAddress = <<>>
  THEN [h |-> Fail(400, "IP address is required"), stored |-> FALSE, entry |-> entry]
  ELSE IF ~ipv4Regex(ipAddress) /\ ~ipv6Regex(ipAddress)
  THEN [h |-> Fail(400, "Invalid IP address format"), stored |-> FALSE, entry |-> entry]
  ELSE IF req.api.outcome = "timeout"
  THEN [h |-> Result(504, "IP lookup request timed out", NoIdentity, 0, <<>>, 1),
        stored |-> FALSE, entry |-> entry]
  ELSE IF req.api.outcome # "ok" \/ req.api.data.t # "object" THEN failed
  ELSE IF StrMember(data, "status") = "fail"
  THEN [h |-> Result(400, IF StrMember(data, "message") # "" THEN StrMember(data, "message")
                          ELSE "Invalid IP address or lookup failed",
                     NoIdentity, 0, <<>>, 1),
        stored |-> FALSE, entry |-> entry]
  ELSE IF ~entryValid(entry) THEN failed
  ELSE [h |-> Result(200, "", NoIdentity, 0, data, 1), stored |-> TRUE, entry |-> entry]

(* GET /api/search/ip *)
SearchIp(req) ==
  LET g == GateRun("search_ip", req)
      out == ipSearch(req)
      stored == g.v.pass /\ out.stored
  IN
  /\ variant = "adminUser"
  /\ stored => Len(history) < MaxHistory
  /\ GateEffects(g, "search_ip", req)
  /\ history' = IF stored THEN Append(history, out.entry) ELSE history
  /\ resp' = Response("search_ip", req, g, out.h)
  /\ UNCHANGED <<variant, env, users, nextUid, sessions, nextSid, now, pending>>

ipApiSuccess == Api("ok", JRec(<< <<"status", "success">>, <<"country", "IN">> >>))
ipApiFail == Api("ok", JRec(<< <<"status", "fail">>, <<"message", "invalid query">> >>))

IpQueries ==
  { ipGoogle, ipPaddedGoogle, ipOctets999, sNotAnIp, ip6Loopback, ip6Compressed,
    ip6TripleColon, ip6Full, <<>> }

IpAnswers == {ipApiSuccess, ipApiFail, Api("notok", apiNull), Api("timeout", apiNull)}

IpLogin ==
  /\ sessions = <<>>
  /\ \E body \in {bodyStored, bodySuper} : Login(LoginReq(pfBrowser, 0, body))

IpStep ==
  \E sid \in IssuedSids, query \in IpQueries, api \in IpAnswers :
    /\ HitsOf(searchSeen, pfBrowser.socket) < MaxAttempts
    /\ SearchIp(SearchReq(pfBrowser, sid, query, api))

NextIp == IpLogin \/ IpStep

SpecIp == Start({EnvSet}) /\ [][NextIp]_vars

(* The value of a string of decimal digits. *)
RECURSIVE DecimalValue(_)
DecimalValue(g) ==
  IF g = <<>> THEN 0
  ELSE 10 * DecimalValue(SubSeq(g, 1, Len(g) - 1))
       + (CHOOSE d \in 0..9 : Digits[d + 1] = g[Len(g)])

(* A dotted quad of four decimal octets, each at most 255. *)
IsIPv4Literal(s) ==
  LET parts == Split(s, ".")
  IN  Len(parts) = 4 /\ \A i \in DOMAIN parts :
        isDigits13(parts[i]) /\ DecimalValue(parts[i]) <= 255

(* Eight groups of one to four hex digits, or fewer with one "::" that    *)
(* stands for the missing groups.                                         *)
IsIPv6Literal(s) ==
  LET parts == Split(s, ":")
      gaps == {i \in 1..(Len(s) - 1) : s[i] = ":" /\ s[i + 1] = ":"}
      groups == {i \in DOMAIN parts : parts[i] # <<>>}
  IN  /\ \A i \in groups : isHex14(parts[i])
      /\ \/ gaps = {} /\ Len(parts) = 8 /\ groups = DOMAIN parts
         \/ /\ Cardinality(gaps) = 1 /\ Cardinality(groups) <= 7
            /\ s[1] = ":" => 1 \in gaps
            /\ s[Len(s)] = ":" => (Len(s) - 1) \in gaps

WellFormedIp(s) == IsIPv4Literal(s) \/ IsIPv6Literal(s)

IpAnswered(r) == r.route = "search_ip" /\ r.handler

(* C14: an IP search whose query is not a well-formed IPv4 or IPv6        *)
(* literal is answered 400 with no outbound call and no history entry; a  *)
(* well-formed literal reaches the provider call.                         *)
C14_Stated ==
  [][ IpAnswered(resp') =>
        LET q == sanitizeString(JStr(resp'.req.query))
        IN  IF WellFormedIp(q) THEN resp'.outbound = 1
            ELSE resp'.status = 400 /\ resp'.outbound = 0 /\ history' = history ]_vars


(* ============= searches from blocklisted addresses (SpecVpn) ========== *)
pf172 == Profile(uaBrowser, originOk, <<>>, ip172, <<>>, "clean")
pfForwardedVpn == Profile(uaBrowser, originOk, <<>>, ipClean, <<ipVpn>>, "clean")

VpnProfiles == {pfBrowser, pfVpnRange, pf172, pfForwardedVpn}

VpnLogin ==
  /\ sessions = <<>>
  /\ Login(LoginReq(pfBrowser, 0, bodyStored))

VpnSearch ==
  \E pf \in VpnProfiles, sid \in IssuedSids :
    /\ HitsOf(searchSeen, reqIp(SearchReq(pf, sid, qOne, apiTwoRows))) < MaxAttempts - 1
    /\ Search("search_email", SearchReq(pf, sid, qOne, apiTwoRows))

VpnSearchMobile ==
  \E pf \in VpnProfiles, sid \in IssuedSids :
    LET req == SearchReq(pf, sid, qOne,
                         MobileApi(Api("ok", JArr(<<recA>>)), Api("ok", JRec(recB))))
    IN  /\ HitsOf(searchSeen, reqIp(req)) < MaxAttempts - 1
        /\ SearchMobile(req)

VpnSearchIp ==
  \E pf \in VpnProfiles, sid \in IssuedSids :
    /\ HitsOf(searchSeen, reqIp(SearchReq(pf, sid, ipGoogle, ipApiSuccess))) < MaxAttempts - 1
    /\ SearchIp(SearchReq(pf, sid, ipGoogle, ipApiSuccess))

NextVpn == VpnLogin \/ VpnSearch \/ VpnSearchMobile \/ VpnSearchIp

SpecVpn == Start({EnvSet}) /\ [][NextVpn]_vars

(* The resolved caller address starts with an entry of the variant's static table. *)
Blocklisted(req) ==
  IF variant = "adminUser" THEN inVpnRanges(realIpOf(req)) ELSE inVpnRangesOld(realIpOf(req))

SearchAnswered(r) == r.route \in SearchRoutes

(* C15: a search request whose resolved caller address has a prefix in    *)
(* the static blocklist is answered 403 with code VPN_DETECTED, makes no  *)
(* outbound call and writes no history entry.                             *)
C15_Stated ==
  [][ SearchAnswered(resp') /\ Blocklisted(resp'.req) =>
        /\ resp'.status = 403 /\ resp'.code = "VPN_DETECTED"
        /\ resp'.outbound = 0 /\ history' = history ]_vars


(* ================= feature sets (SpecFeatures) ======================== *)
(* A variant that falls back to the whole vocabulary for an empty list too. *)
featuresOrAllEmptyToo(doc) ==
  IF "features" \notin DOMAIN doc \/ doc.features = <<>> THEN ALL_FEATURES ELSE doc.features

(* user.features || ALL_FEATURES: an array, the empty one included, is truthy. *)
featuresOrAll(doc) ==
  IF "features" \notin DOMAIN doc THEN ALL_FEATURES ELSE doc.features

(* The handler of GET /api/user/features. *)
userFeatures(req) ==
  LET userId == sessionUser(req).id
  IN  IF userId = <<"admin", 0>> THEN ALL_FEATURES
      ELSE IF userId[2] \notin DOMAIN users THEN ALL_FEATURES
      ELSE featuresOrAll(users[userId[2]])

(* GET /api/user/features (admin/user routes only) *)
UserFeatures(req) ==
  LET g == GateRun("userFeatures", req) IN
  /\ variant = "adminUser"
  /\ GateEffects(g, "userFeatures", req)
  /\ resp' = Response("userFeatures", req, g, Ok(200, userFeatures(req)))
  /\ UNCHANGED <<variant, env, users, nextUid, sessions, nextSid, now, history, pending>>

bodyFeaturesTwice == FeaturesBody(JArr(<<"mobile", "mobile", "pan">>))
bodyFeaturesNone == FeaturesBody(JArr(<<>>))
bodyFeaturesBogus == FeaturesBody(JArr(<<"bogus">>))
bodyFeaturesString == FeaturesBody(JStr(<<"i","p">>))

FeatureBodies ==
  { bodyFeatures, bodyFeaturesTwice, bodyFeaturesNone, bodyFeaturesBogus,
    bodyFeaturesString, NoBody }

(* The id of a stored account, and an id no account has. *)
FeatureIds == {1, 9}

FeatLogin ==
  \E body \in {bodySuper, bodyStored} :
    /\ HitsOf(authSeen, pfBrowser.socket) < MaxAttempts
    /\ Login(LoginReq(pfBrowser, 0, body))

FeatUpdate ==
  \E sid \in IssuedSids, id \in FeatureIds, body \in FeatureBodies :
    Features(BodyReq(pfBrowser, sid, id, body))

FeatGet == \E sid \in IssuedSids : UserFeatures(PlainReq(pfBrowser, sid, 0))

FeatDelete == \E sid \in IssuedSids \ {0} : Delete(PlainReq(pfBrowser, sid, 1))

NextFeatures == FeatLogin \/ FeatUpdate \/ FeatGet \/ FeatDelete

SpecFeatures == Start({EnvSet}) /\ [][NextFeatures]_vars

Vocabulary == {"mobile", "email", "aadhar", "pan", "vehicle-info", "vehicle-challan", "ip"}

InVocabulary(f) == f \in Vocabulary

Values(list) == {list[i] : i \in DOMAIN list}

FeaturesAnswered(r) == r.route = "features" /\ r.handler

OthersUnchanged(id) ==
  /\ DOMAIN users' = DOMAIN users
  /\ \A u \in DOMAIN users \ {id} : users'[u] = users[u]

(* What a feature update does about a body that is no list and an unknown id. *)
UpdateRefusals(r) ==
  /\ r.req.body.features.t # "array" => r.status = 400 /\ users' = users
  /\ r.req.body.features.t = "array" /\ r.req.id \notin DOMAIN users =>
       r.status = 404 /\ users' = users

Accepted(r) == r.req.body.features.t = "array" /\ r.req.id \in DOMAIN users

(* C16 as stated: after a feature update the stored feature set equals    *)
(* the supplied values that are in the vocabulary, each value at most     *)
(* once; a body that is no list is answered 400, an unknown id 404, and   *)
(* both leave every account unchanged.                                    *)
C16_Stated ==
  [][ FeaturesAnswered(resp') =>
        /\ UpdateRefusals(resp')
        /\ Accepted(resp') =>
             LET stored == users'[resp'.req.id].features
             IN  /\ resp'.status = 200
                 /\ Values(stored) = Values(resp'.req.body.features.v) \cap Vocabulary
                 /\ \A i, j \in DOMAIN stored : i # j => stored[i] # stored[j]
                 /\ OthersUnchanged(resp'.req.id) ]_vars

(* C16 (amended): the stored list is the supplied list without the values *)
(* outside the vocabulary, in the supplied order and with the supplied    *)
(* repetitions; the refusals are as stated.                               *)
C16_RecognizedValuesStored ==
  [][ FeaturesAnswered(resp') =>
        /\ UpdateRefusals(resp')
        /\ Accepted(resp') =>
             LET stored == users'[resp'.req.id].features
             IN  /\ resp'.status = 200
                 /\ stored = SelectSeq(resp'.req.body.features.v, InVocabulary)
                 /\ Values(stored) = Values(resp'.req.body.features.v) \cap Vocabulary
                 /\ OthersUnchanged(resp'.req.id) ]_vars

(* An update that supplied a value twice, and one that supplied an unknown value. *)
C16_Witness ==
  /\ FeaturesAnswered(resp) /\ resp.status = 200 /\ resp.req.id = 1
  /\ resp.req.body = bodyFeaturesTwice
  /\ users[1].features = <<"mobile", "mobile", "pan">>

CallerIsSuper(r) == sessions[r.req.sid].id = <<"admin", 0>>

CallerAccount(r) == sessions[r.req.sid].id[2]

UserFeaturesAnswered(r) == r.route = "userFeatures" /\ r.handler

apiNotOk == Api("notok", apiNull)
apiTimedOut == Api("timeout", apiNull)

ProxyLogin ==
  /\ sessions = <<>>
  /\ \E body \in {bodyStored, bodySuper} : Login(LoginReq(pfBrowser, 0, body))

ProxyUnder == HitsOf(searchSeen, pfBrowser.socket) < MaxAttempts

ProxySearch ==
  \E route \in {"search_email", "search_pan", "search_id"}, sid \in IssuedSids,
     api \in {apiTwoRows, apiNotOk, apiTimedOut} :
    /\ ProxyUnder
    /\ Search(route, SearchReq(pfBrowser, sid, qOne, api))

ProxyMobile ==
  \E sid \in IssuedSids, m \in {Api("ok", JArr(<<recA>>)), apiNotOk, apiTimedOut},
     a \in {Api("ok", JRec(recB)), apiTimedOut} :
    /\ ProxyUnder
    /\ SearchMobile(SearchReq(pfBrowser, sid, qOne, MobileApi(m, a)))

ProxyChallan ==
  \E sid \in IssuedSids, api \in {Api("ok", JRec(rawAllOk)), apiTimedOut} :
    /\ ProxyUnder
    /\ SearchVehicleChallan(SearchReq(pfBrowser, sid, qPlate, api))

ProxyInfo ==
  \E sid \in IssuedSids, api \in {Api("ok", JRec(rawAllOk)), apiNotOk} :
    /\ ProxyUnder
    /\ SearchVehicleInfo(SearchReq(pfBrowser, sid, qPlate, api))

ProxyIp ==
  \E sid \in IssuedSids, query \in {ipGoogle, sNotAnIp},
     api \in {ipApiSuccess, apiNotOk, apiTimedOut} :
    /\ ProxyUnder
    /\ SearchIp(SearchReq(pfBrowser, sid, query, api))

NextProxy ==
  ProxyLogin \/ ProxySearch \/ ProxyMobile \/ ProxyChallan \/ ProxyInfo \/ ProxyIp

SpecProxy == Start({EnvSet}) /\ [][NextProxy]_vars

(* The handler made its outbound call(s) and an upstream answer came back with a 2xx status. *)
ReachedApi(r) ==
  /\ r.handler /\ r.outbound > 0
  /\ \/ r.req.api.outcome = "ok"
     \/ r.route = "search_mobile" /\ r.req.api.alt.outcome = "ok"

Appended == Len(history') - Len(history)

(* C18: a search request appends exactly one history entry when it has a  *)
(* session identity and the external API was reached successfully, and    *)
(* none otherwise; no request appends more than one.                      *)
C18_Stated ==
  [][ SearchAnswered(resp') =>
        /\ Appended \in {0, 1}
        /\ SubSeq(history', 1, Len(history)) = history
        /\ Appended = 1 <=> (resp'.req.sid \in DOMAIN sessions /\ ReachedApi(resp')) ]_vars


DeadlineRoutes ==
  {"search_mobile", "search_email", "search_aadhar", "search_pan", "search_id", "search_ip"}

(* The handler made its outbound call(s), and one of them exceeded the deadline. *)
TimedOut(r) ==
  /\ r.route \in DeadlineRoutes /\ r.handler /\ r.outbound > 0
  /\ \/ r.req.api.outcome = "timeout"
     \/ r.route = "search_mobile" /\ r.req.api.alt.outcome = "timeout"

(* The handler made its outbound call(s), none timed out, and one failed otherwise. *)
FailedOtherwise(r) ==
  /\ r.route \in DeadlineRoutes /\ r.handler /\ r.outbound > 0 /\ ~TimedOut(r)
  /\ \/ r.req.api.outcome = "notok"
     \/ r.route = "search_mobile" /\ r.req.api.alt.outcome = "notok"

TimeoutMessages == {"Search request timed out", "IP lookup request timed out"}

(* C19: a mobile, email, national-id or ip search whose outbound call     *)
(* exceeds its deadline is answered with the 504 timeout body, one whose  *)
(* call fails otherwise with a 500 body; a timed-out search is never      *)
(* answered with success.                                                 *)
C19_Stated ==
  /\ TimedOut(resp) => resp.status = 504 /\ resp.error \in TimeoutMessages
  /\ FailedOtherwise(resp) => resp.status = 500


(* ===================== logout and who-am-I (SpecSession) ============== *)
(* session({ name: "sid", ... }) in both variants. *)
sessionCookieName == "sid"

(* The cookie name the logout handler passes to res.clearCookie. *)
clearedCookieName == IF variant = "adminUser" THEN "sid" ELSE "connect.sid"

(* What the session store answers to destroy: req.api.outcome "ok" or "storeError". *)
storeOk == Api("ok", apiNull)
storeError == Api("storeError", apiNull)

(* POST /api/auth/logout: req.session.destroy, then clearCookie and success. *)
Logout(req) ==
  LET g == GateRun("logout", req)
      err == req.api.outcome = "storeError"
  IN
  /\ GateEffects(g, "logout", req)
  /\ sessions' = IF g.v.pass /\ ~err
                 THEN [s \in DOMAIN sessions \ {req.sid} |-> sessions[s]] ELSE sessions
  /\ resp' = Response("logout", req, g,
                      IF err THEN Fail(500, "Logout failed")
                      ELSE Ok(200, <<[clearCookie |-> clearedCookieName]>>))
  /\ UNCHANGED <<variant, env, users, nextUid, nextSid, now, history, pending>>

(* GET /api/auth/me *)
Me(req) ==
  LET g == GateRun("me", req)
      user == sessionUser(req)
  IN
  /\ GateEffects(g, "me", req)
  /\ resp' = Response("me", req, g,
                      IF user # NoIdentity THEN Result(200, "", user, 0, <<>>, 0)
                      ELSE Fail(401, "Not authenticated"))
  /\ UNCHANGED <<variant, env, users, nextUid, sessions, nextSid, now, history, pending>>

SessionLogin ==
  \E body \in {bodySuper, bodyStored} :
    /\ HitsOf(authSeen, pfBrowser.socket) < MaxAttempts
    /\ Login(LoginReq(pfBrowser, 0, body))

SessionLogout ==
  \E pf \in {pfBrowser, pfBurp}, sid \in IssuedSids, store \in {storeOk, storeError} :
    Logout(Req(pf, sid, NoBody, 0, <<>>, store))

SessionMe == \E sid \in IssuedSids : Me(PlainReq(pfBrowser, sid, 0))

NextSession == SessionLogin \/ SessionLogout \/ SessionMe

SpecSession == Start({EnvSet}) /\ [][NextSession]_vars

LogoutAnswered(r) == r.route = "logout" /\ r.handler

(* C20: after a logout that returns success the presented token resolves  *)
(* to no identity (who-am-I with it returns 401) and the response clears  *)
(* the cookie named in the session configuration; a failure to destroy    *)
(* the session returns 500.                                               *)
C20_Stated ==
  /\ LogoutAnswered(resp) /\ resp.status = 200 =>
       /\ resp.req.sid \notin DOMAIN sessions
       /\ resp.data = <<[clearCookie |-> sessionCookieName]>>
  /\ LogoutAnswered(resp) /\ resp.req.api.outcome = "storeError" => resp.status = 500
  /\ resp.route = "me" /\ resp.handler /\ resp.req.sid \notin DOMAIN sessions =>
       resp.status = 401


(* ================= the VPN check (SpecReputation) ===================== *)
MaxNow == 6       \* minutes that pass in one behaviour

EnvNoKey == [username |-> uAdm, password |-> pSecret, vpnapiKey |-> FALSE]

(* A minute passes. *)
Tick ==
  /\ now < MaxNow
  /\ now' = now + 1
  /\ UNCHANGED <<variant, env, users, nextUid, sessions, nextSid, authHits, searchHits,
                 authSeen, searchSeen, ipCache, history, pending, resp>>

(* The lookup at vpnapi.io is issued: the address is neither exempt nor   *)
(* in the table, ipCache has no fresh verdict for it, and VPNAPI_KEY is set. *)
reputationCall(req) ==
  LET realIp == realIpOf(req) IN
  /\ realIp \notin privateIps /\ realIp \notin rangeIps
  /\ ~(realIp \in DOMAIN ipCache /\ now - ipCache[realIp].timestamp < CACHE_TTL)
  /\ env.vpnapiKey

sBlank == <<" ">>

(* Socket addresses and X-Forwarded-For headers of the requests. *)
Origins ==
  { [socket |-> ipClean, xff |-> <<>>], [socket |-> ipVpn, xff |-> <<>>],
    [socket |-> ip172, xff |-> <<>>], [socket |-> ipPrivate, xff |-> <<>>],
    [socket |-> ipLoopback, xff |-> <<>>],
    [socket |-> ipVpn, xff |-> <<ipClean>>], [socket |-> ip172, xff |-> <<ipClean>>],
    [socket |-> ipVpn, xff |-> <<ipPrivate, ipVpn>>],
    [socket |-> ipClean, xff |-> <<ipPrivate, ipVpn>>],
    [socket |-> ipClean, xff |-> <<ipVpn>>],
    [socket |-> ipClean, xff |-> <<sBlank, ipVpn>>],
    [socket |-> ipClean, xff |-> <<sBlank, ipClean>>] }

ReputationAnswers == {"vpn", "clean", "notok", "timeout"}

ReputationRequests ==
  { PlainReq(Profile(uaBrowser, originOk, <<>>, o.socket, o.xff, answer), 1, 0) :
      o \in Origins, answer \in ReputationAnswers }

RepLogin ==
  /\ sessions = <<>>
  /\ Login(LoginReq(pfBrowser, 0, bodySuper))

RepStats == \E req \in ReputationRequests : 1 \in DOMAIN sessions /\ Stats(req)

NextReputation == RepLogin \/ RepStats \/ Tick

SpecReputation == Start({EnvSet, EnvNoKey}) /\ [][NextReputation]_vars

DetectRan(r) == \E i \in DOMAIN r.trace : r.trace[i] = "detectVPN"

DetectRejected(r) == DetectRan(r) /\ ~r.handler /\ r.code = "VPN_DETECTED" /\ r.status = 403

DetectPassed(r) == DetectRan(r) /\ r.handler

InTable(ip) == \E range \in vpnRanges : StartsWith(ip, range)

(* 127.0.0.1, ::1, 10/8, 192.168/16 and 172.16/12. *)
IsLoopbackOrRfc1918(ip) ==
  \/ ip \in {<<"1","2","7",".","0",".","0",".","1">>, <<":",":","1">>}
  \/ StartsWith(ip, <<"1","0",".">>)
  \/ StartsWith(ip, <<"1","9","2",".","1","6","8",".">>)
  \/ /\ StartsWith(ip, <<"1","7","2",".">>) /\ Len(Split(ip, ".")) = 4
     /\ isDigits13(Split(ip, ".")[2]) /\ DecimalValue(Split(ip, ".")[2]) \in 16..31

(* C21: detectVPN rejects with 403 VPN_DETECTED every request whose       *)
(* resolved address begins with an entry of the static table, and passes, *)
(* without a table, cache or reputation lookup, every request whose       *)
(* resolved address is loopback or RFC1918 private.                       *)
C21_Stated ==
  [][ variant = "adminUser" /\ now' = now /\ DetectRan(resp') =>
        /\ InTable(realIpOf(resp'.req)) => DetectRejected(resp')
        /\ IsLoopbackOrRfc1918(realIpOf(resp'.req)) =>
             DetectPassed(resp') /\ ~reputationCall(resp'.req) /\ ipCache' = ipCache ]_vars


(* The request reached the cache stage of detectVPN: its resolved address *)
(* is neither exempt nor in the static table.                             *)
ReachedCache(r) ==
  /\ variant = "adminUser" /\ DetectRan(r)
  /\ ~isPrivateIp(realIpOf(r.req)) /\ ~InTable(realIpOf(r.req))

CachedAt(cache, ip, verdict, time) ==
  /\ ip \in DOMAIN cache
  /\ cache[ip] = [isVpn |-> verdict, timestamp |-> time]
  /\ \A other \in DOMAIN cache \ {ip} : other \in DOMAIN ipCache /\ cache[other] = ipCache[other]
  /\ DOMAIN ipCache \subseteq DOMAIN cache

(* C22: for an address that is not statically blocked, while its cached   *)
(* verdict is younger than 5 minutes no reputation call is made and the   *)
(* decision is the cached verdict (block iff positive); on a miss or an   *)
(* entry 5 minutes old or older a call is made exactly when a key is      *)
(* configured, and the verdict it returns is cached with the current time. *)
C22_CachedVerdicts ==
  [][ now' = now /\ ReachedCache(resp') =>
        LET req == resp'.req
            ip == realIpOf(req)
            fresh == ip \in DOMAIN ipCache /\ now - ipCache[ip].timestamp < 5
        IN  IF fresh
            THEN /\ ~reputationCall(req)
                 /\ ipCache' = ipCache
                 /\ IF ipCache[ip].isVpn THEN DetectRejected(resp') ELSE DetectPassed(resp')
            ELSE /\ reputationCall(req) <=> env.vpnapiKey
                 /\ ~env.vpnapiKey => ipCache' = ipCache /\ DetectPassed(resp')
                 /\ env.vpnapiKey /\ req.vpnapi \in {"vpn", "clean"} =>
                      /\ CachedAt(ipCache', ip, req.vpnapi = "vpn", now)
                      /\ IF req.vpnapi = "vpn" THEN DetectRejected(resp')
                         ELSE DetectPassed(resp') ]_vars

(* A request rejected on a cached positive verdict some minutes old,      *)
(* although vpnapi.io would now answer that the address is clean.         *)
C22_Witness ==
  /\ ReachedCache(resp) /\ DetectRejected(resp) /\ resp.req.vpnapi = "clean"
  /\ realIpOf(resp.req) \in DOMAIN ipCache
  /\ ipCache[realIpOf(resp.req)].isVpn
  /\ now - ipCache[realIpOf(resp.req)].timestamp \in 1..4

(* C23: when the reputation call times out, throws or is answered with a  *)
(* non-OK status, detectVPN passes the request on, writes no verdict to   *)
(* the cache and does not reject.                                         *)
C23_FailsOpen ==
  [][ now' = now /\ ReachedCache(resp') /\ reputationCall(resp'.req)
        /\ resp'.req.vpnapi \in {"notok", "timeout"} =>
        DetectPassed(resp') /\ ~DetectRejected(resp') /\ ipCache' = ipCache ]_vars

(* A request that passed after its reputation call timed out, the cache   *)
(* still holding only the expired verdict that made the call necessary.   *)
C23_Witness ==
  /\ ReachedCache(resp) /\ DetectPassed(resp) /\ resp.req.vpnapi = "timeout"
  /\ env.vpnapiKey
  /\ realIpOf(resp.req) \in DOMAIN ipCache
  /\ now - ipCache[realIpOf(resp.req)].timestamp >= 5



(* ================ the Origin/Referer gate (SpecOrigin) ================ *)
(* Any request outside /api/: the app.use chain runs and hands it on. *)
Page(req) ==
  LET g == GateRun("page", req) IN
  /\ GateEffects(g, "page", req)
  /\ resp' = Response("page", req, g, Ok(200, <<>>))
  /\ UNCHANGED <<variant, env, users, nextUid, sessions, nextSid, now, history, pending>>

(* Header combinations; <<>> is a header that was not sent. *)
OriginProfiles ==
  { Profile(ua, origin, referer, ipClean, <<>>, "clean") :
      ua \in {uaBrowser, uaCurl, <<>>},
      origin \in {<<>>, originOk, originEvil, originLookalike, originReplit},
      referer \in {<<>>, refererPage, originEvil} }

OriginLogin == sessions = <<>> /\ Login(LoginReq(pfBrowser, 0, bodySuper))

OriginMe == \E pf \in OriginProfiles : Me(PlainReq(pf, 1, 0))

OriginStats == \E pf \in OriginProfiles : Stats(PlainReq(pf, 1, 0))

OriginPage == \E pf \in OriginProfiles : Page(PlainReq(pf, 1, 0))

NextOrigin == OriginLogin \/ OriginMe \/ OriginStats \/ OriginPage

SpecOrigin == Start({EnvSet}) /\ [][NextOrigin]_vars

(* scheme://host[:port] of a URL: everything before the first "/" of its path. *)
OriginOf(url) ==
  LET marks == {i \in 1..(Len(url) - 2) : SubSeq(url, i, i + 2) = <<":", "/", "/">>}
      from == IF marks = {} THEN 1 ELSE Least(marks) + 3
      slashes == {i \in from..Len(url) : url[i] = "/"}
  IN IF slashes = {} THEN url ELSE SubSeq(url, 1, Least(slashes) - 1)

(* The allowlist: the listed origins, and every origin that contains one *)
(* of the platform domains.                                              *)
Allowlisted(source) ==
  \/ OriginOf(source) \in ALLOWED_ORIGINS
  \/ \E d \in platformDomains : Includes(source, d)

GateRan(r) == \E i \in 1..Len(r.trace) : r.trace[i] = "apiProtection"

GateRejected(r, code) ==
  /\ GateRan(r) /\ ~r.handler /\ r.trace[Len(r.trace)] = "apiProtection"
  /\ r.status = 403 /\ r.code = code

GatePassed(r) == GateRan(r) /\ (r.handler \/ r.trace[Len(r.trace)] # "apiProtection")

(* C24: on API paths a request whose Origin is not allowlisted gets 403   *)
(* CORS_BLOCKED; otherwise one whose Referer is not allowlisted gets 403  *)
(* REFERER_BLOCKED; one with neither header to an API path other than     *)
(* /api/auth/me gets 403 API_ACCESS_DENIED unless its User-Agent looks    *)
(* like a browser; the CORS allow headers are set exactly when the origin *)
(* is present, allowlisted and the request passed; other paths pass.      *)
C24_Stated ==
  GateRan(resp) =>
    LET req == resp.req
        apiPath == StartsWith(PathOf(resp.route), sApiPrefix)
        originBad == req.origin # <<>> /\ ~Allowlisted(req.origin)
        refererBad == req.referer # <<>> /\ ~Allowlisted(req.referer)
        direct == /\ req.origin = <<>> /\ req.referer = <<>>
                  /\ resp.route # "me" /\ ~isBrowserUA(req.ua)
    IN  /\ ~apiPath => GatePassed(resp)
        /\ apiPath /\ originBad => GateRejected(resp, "CORS_BLOCKED")
        /\ apiPath /\ ~originBad /\ refererBad => GateRejected(resp, "REFERER_BLOCKED")
        /\ apiPath /\ direct => GateRejected(resp, "API_ACCESS_DENIED")
        /\ apiPath /\ ~originBad /\ ~refererBad /\ ~direct => GatePassed(resp)
        /\ resp.cors <=>
             apiPath /\ req.origin # <<>> /\ Allowlisted(req.origin) /\ GatePassed(resp)



(* ============== creating and updating accounts (SpecAccounts) ========= *)
uSpaced == <<"a"," ","b">>
eNoAt == <<"n","o","p","e">>

UpdateBody(u, p, n, e, s) == [AccountBody(u, p, n, e) EXCEPT !.status = s]

bodyStatusOnly == UpdateBody(JUndef, JUndef, JUndef, JUndef, JStr(sInactive))
bodyRenameEmailOfAli == UpdateBody(JStr(uCarl), JUndef, JUndef, JStr(eAli), JUndef)
bodySpacedUsername == UpdateBody(JStr(uSpaced), JUndef, JUndef, JUndef, JUndef)
bodyEmailNoAt == UpdateBody(JUndef, JUndef, JUndef, JStr(eNoAt), JUndef)
bodyCreateSpaced == AccountBody(JStr(uSpaced), JStr(pCarl), JStr(nCarl), JStr(eCarl))

(* Updates of account 2 and of an id that is not stored; a second update  *)
(* may be looked up while the first is still waiting for its save.        *)
UpdateBodies ==
  {bodyRenameToCarl, bodyRenameToAli, bodyNewName, bodyStatusOnly, bodyRenameEmailOfAli}

UpdateIds == {2, 9}

AccLogin == sessions = <<>> /\ Login(LoginReq(pfBrowser, 0, bodySuper))

AccUpdate ==
  \E body \in UpdateBodies :
    /\ 1 \in DOMAIN sessions
    /\ pending = <<>> \/ body = bodyNewName
    /\ UpdateLookup(BodyReq(pfBrowser, 1, 2, body))

AccUpdateUnknown ==
  \E id \in UpdateIds \ {2} :
    1 \in DOMAIN sessions /\ UpdateLookup(BodyReq(pfBrowser, 1, id, bodyStatusOnly))

AccUpdateSave == \E i \in 1..MaxPending : UpdateSave(i)

NextAccounts == AccLogin \/ AccUpdate \/ AccUpdateUnknown \/ AccUpdateSave

SpecAccounts == Start({EnvSet}) /\ [][NextAccounts]_vars

(* Creates and updates whose fields break the create route's rules. *)
ValidityLogin == sessions = <<>> /\ Login(LoginReq(pfBrowser, 0, bodySuper))

ValidityCreate ==
  \E body \in {bodyCarl, bodyCreateSpaced} :
    /\ 1 \in DOMAIN sessions /\ pending = <<>>
    /\ CreateLookup(BodyReq(pfBrowser, 1, 0, body))

ValidityUpdate ==
  \E body \in {bodySpacedUsername, bodyEmailNoAt, bodyStatusOnly} :
    /\ 1 \in DOMAIN sessions /\ pending = <<>>
    /\ UpdateLookup(BodyReq(pfBrowser, 1, 2, body))

ValidityCreateSave == \E i \in 1..MaxPending : CreateSave(i)

ValidityUpdateSave == \E i \in 1..MaxPending : UpdateSave(i)

NextValidity ==
  \/ ValidityLogin \/ ValidityCreate \/ ValidityUpdate \/ ValidityCreateSave
  \/ ValidityUpdateSave

SpecValidity == Start({EnvSet}) /\ [][NextValidity]_vars

Supplied(x) == x # JUndef

(* The step is the save of an update that answered 200. *)
UpdateSucceeded ==
  /\ Len(pending') < Len(pending)
  /\ resp'.route = "update" /\ resp'.handler /\ resp'.status = 200

(* C25: after a successful update every field among username, email,     *)
(* name, status and password hash that the request did not supply is     *)
(* unchanged, created-at is unchanged, the password hash changes only if *)
(* a new password was supplied, and every other account is unchanged.    *)
C25_PartialUpdate ==
  [][ UpdateSucceeded =>
        LET id == resp'.req.id
            body == resp'.req.body
        IN  /\ DOMAIN users' = DOMAIN users
            /\ \A f \in {"username", "email", "name", "status", "password"} :
                 ~Supplied(body[f]) => users'[id][f] = users[id][f]
            /\ users'[id].createdAt = users[id].createdAt
            /\ users'[id].password # users[id].password => Supplied(body.password)
            /\ \A other \in DOMAIN users \ {id} : users'[other] = users[other] ]_vars

(* An update that supplied a name and a password answered 200 for an     *)
(* account whose username another update had changed in the meantime: the *)
(* new username is still stored.                                          *)
C25_Witness ==
  /\ resp.route = "update" /\ resp.handler /\ resp.status = 200
  /\ resp.req.body = bodyNewName /\ resp.req.id \in DOMAIN users
  /\ users[resp.req.id].name = nCarl
  /\ users[resp.req.id].password = bcryptHash(pCarl)
  /\ users[resp.req.id].username = uCarl
  /\ users[resp.req.id].email = eBob

WellFormedAccount(doc) ==
  /\ Len(doc.username) \in 3..50
  /\ \A i \in 1..Len(doc.username) : doc.username[i] \in UsernameChars
  /\ Len(doc.name) \in 2..100
  /\ isValidEmail(doc.email)
  /\ doc.status \in {sActive, sInactive}

(* C26: in every reachable state of the account collection, after any     *)
(* sequence of create and update requests, every stored account has a     *)
(* username of 3 to 50 alphanumeric/underscore characters, a name of 2 to *)
(* 100 characters, a well-shaped email and a status that is active or     *)
(* inactive.                                                              *)
C26_Stated ==
  variant = "adminUser" => \A u \in DOMAIN users : WellFormedAccount(users[u])

(* The step answered an update with 404 or with a 400 duplicate refusal. *)
UpdateRejected ==
  /\ resp'.route = "update" /\ resp'.handler
  /\ \/ resp'.status = 404
     \/ resp'.status = 400 /\ resp'.error \in {"Username already exists", "Email already exists"}

(* C27: an update that is rejected (404 unknown id, 400 username exists,  *)
(* 400 email exists) leaves the stored account and every other account    *)
(* unchanged, also when its new username had been accepted before its new *)
(* email was found to conflict.                                           *)
C27_RejectedUpdateStoresNothing ==
  [][ UpdateRejected /\ resp' # resp => users' = users ]_vars

(* An update whose new username was free and whose new email belongs to   *)
(* another account was answered 400, the account still under its old name. *)
C27_Witness ==
  /\ resp.route = "update" /\ resp.handler /\ resp.status = 400
  /\ resp.error = "Email already exists"
  /\ resp.req.body = bodyRenameEmailOfAli
  /\ resp.req.id \in DOMAIN users
  /\ users[resp.req.id].username = uBob
  /\ \A u \in DOMAIN users : users[u].username # uCarl



(* --------- the address the VPN check decides on (SpecReputation) ------- *)
(* What detectVPN answers to a request in the current state. *)
Decision(req) == Verdict("detectVPN", "stats", req).pass

SameFirstEntry(a, b) ==
  /\ a.xff # <<>> /\ b.xff # <<>> /\ a.xff[1] = b.xff[1]
  /\ a.vpnapi = b.vpnapi

FirstEntryBlank(req) == \A i \in 1..Len(req.xff[1]) : IsSpace(req.xff[1][i])

FirstEntryPrivate(req) ==
  /\ req.xff # <<>> /\ ~FirstEntryBlank(req)
  /\ IsLoopbackOrRfc1918(Trim(req.xff[1]))

(* C30: whenever X-Forwarded-For is present the decision of the VPN check *)
(* is a function of its first entry alone: any request with the same first *)
(* entry gets the decision the answered request got, whatever the socket   *)
(* addresses, and a request whose header begins with a loopback or private *)
(* address passes.                                                        *)
C30_Stated ==
  [][ now' = now /\ DetectRan(resp') /\ resp'.req.xff # <<>> =>
        /\ \A other \in ReputationRequests :
             SameFirstEntry(resp'.req, other) => (DetectPassed(resp') <=> Decision(other))
        /\ FirstEntryPrivate(resp'.req) => DetectPassed(resp') ]_vars

(* C30, corrected: whenever the first X-Forwarded-For entry is not blank  *)
(* the decision is a function of that entry alone, whatever the socket     *)
(* addresses and the other entries; a request whose header begins with a   *)
(* loopback or private address passes.                                    *)
C30_FirstNonBlankEntry ==
  [][ now' = now /\ DetectRan(resp') /\ resp'.req.xff # <<>>
        /\ ~FirstEntryBlank(resp'.req) =>
        /\ \A other \in ReputationRequests :
             SameFirstEntry(resp'.req, other) => (DetectPassed(resp') <=> Decision(other))
        /\ FirstEntryPrivate(resp'.req) => DetectPassed(resp') ]_vars

(* A request from a socket address of the static table passed because its *)
(* X-Forwarded-For begins with a private address.                         *)
C30_Witness ==
  /\ DetectPassed(resp)
  /\ FirstEntryPrivate(resp.req)
  /\ InTable(resp.req.socket)
  /\ ~Decision([resp.req EXCEPT !.xff = <<>>])



(* ====== sessions of accounts that change afterwards (SpecRevoke) ====== *)
(* Session 1 belongs to the stored account 1, session 2 to the superuser, *)
(* who deactivates and deletes account 1 while session 1 keeps searching. *)
RevLoginStored == sessions = <<>> /\ Login(LoginReq(pfBrowser, 0, bodyStored))

RevLoginSuper == DOMAIN sessions = {1} /\ nextSid = 2 /\ Login(LoginReq(pfOther, 0, bodySuper))

RevDeactivate ==
  pending = <<>> /\ 2 \in DOMAIN sessions /\ UpdateLookup(BodyReq(pfOther, 2, 1, bodyStatusOnly))

RevSave == \E i \in 1..MaxPending : UpdateSave(i)

RevDelete == 2 \in DOMAIN sessions /\ Delete(PlainReq(pfOther, 2, 1))

RevSearch ==
  \E api \in {apiTwoRows, apiTimeout} :
    /\ nextSid > 1
    /\ HitsOf(searchSeen, pfBrowser.socket) < MaxAttempts
    /\ Search("search_email", SearchReq(pfBrowser, 1, qOne, api))

RevLogout == 1 \in DOMAIN sessions /\ Logout(Req(pfBrowser, 1, NoBody, 0, <<>>, storeOk))

NextRevoke ==
  \/ RevLoginStored \/ RevLoginSuper \/ RevDeactivate \/ RevSave \/ RevDelete
  \/ RevSearch \/ RevLogout

SpecRevoke == Start({EnvSet}) /\ [][NextRevoke]_vars

AuthRan(r) == \E i \in 1..Len(r.trace) : r.trace[i] = "requireAuth"

AuthPassed(r) == AuthRan(r) /\ (r.handler \/ r.trace[Len(r.trace)] # "requireAuth")

(* The step answered a search request (every search request is counted). *)
SearchAnsweredNow == searchSeen' # searchSeen /\ IsSearch(resp'.route)

(* The step belongs to an account update or delete. *)
AccountChangedNow ==
  \/ pending' # pending
  \/ resp' # resp /\ resp'.route \in {"update", "delete"}

(* C28: the authentication check depends only on the session store: a     *)
(* search presented with a stored session passes requireAuth whatever has *)
(* become of the account, a search that succeeds is logged under the      *)
(* session's identity, and no account update or delete removes or changes *)
(* any session.                                                           *)
C28_SessionsOutliveAccounts ==
  [][ /\ SearchAnsweredNow /\ AuthRan(resp') =>
           /\ AuthPassed(resp') <=> resp'.req.sid \in DOMAIN sessions
           /\ resp'.handler /\ resp'.status = 200 =>
                /\ Len(history') = Len(history) + 1
                /\ history'[Len(history')].userId = sessions[resp'.req.sid].id
      /\ AccountChangedNow => sessions' = sessions ]_vars

(* A search answered 200 and logged for a session whose account has been  *)
(* deleted.                                                               *)
C28_Witness ==
  /\ IsSearch(resp.route) /\ resp.handler /\ resp.status = 200
  /\ resp.req.sid \in DOMAIN sessions
  /\ sessions[resp.req.sid].id = <<"oid", 1>>
  /\ 1 \notin DOMAIN users
  /\ history # <<>> /\ history[Len(history)].userId = <<"oid", 1>>



(* ========== searches and the feature list (SpecEntitle) =============== *)
(* Session 1 belongs to the stored account 1, session 2 to the superuser, *)
(* who rewrites the account's feature list between the account's searches. *)
EntitleLoginStored == sessions = <<>> /\ Login(LoginReq(pfBrowser, 0, bodyStored))

EntitleLoginSuper ==
  DOMAIN sessions = {1} /\ nextSid = 2 /\ Login(LoginReq(pfOther, 0, bodySuper))

EntitleFeatures ==
  \E body \in {bodyFeaturesNone, bodyFeaturesTwice, bodyFeatures} :
    2 \in DOMAIN sessions /\ Features(BodyReq(pfOther, 2, 1, body))

EntitleRequests ==
  { SearchReq(pfBrowser, 1, qOne, apiTwoRows), SearchReq(pfBrowser, 1, qOne, apiTimeout),
    SearchReq(pfBrowser, 1, <<>>, apiTwoRows) }

EntitleSearch ==
  \E route \in {"search_email", "search_pan"}, req \in EntitleRequests :
    /\ 1 \in DOMAIN sessions
    /\ HitsOf(searchSeen, pfBrowser.socket) < MaxAttempts
    /\ Search(route, req)

NextEntitle == EntitleLoginStored \/ EntitleLoginSuper \/ EntitleFeatures \/ EntitleSearch

SpecEntitle == Start({EnvSet}) /\ [][NextEntitle]_vars

(* What a search request would be answered in the current state, whether  *)
(* a history entry would be stored, and which.                            *)
SearchOutcome(route, req) ==
  LET g == GateRun(route, req)
      out == searchHandler(route, req)
  IN [response |-> Response(route, req, g, out.h),
      stored |-> g.v.pass /\ out.stored,
      entry |-> out.entry]

(* The step changed the feature list of account 1 and nothing else of it. *)
FeaturesChangedNow ==
  /\ variant = "adminUser"
  /\ 1 \in DOMAIN users /\ 1 \in DOMAIN users'
  /\ users'[1].features # users[1].features
  /\ users' = [users EXCEPT ![1].features = users'[1].features]

Holds(list, f) == \E i \in DOMAIN list : list[i] = f

====
